---- MODULE Spec2Model ----
(***************************************************************************)
(* CVSSify: parse -> validate -> populate defaults -> score, for CVSS 3.0  *)
(* and 3.1 vector strings (parser.ts, validator.ts, models.ts,             *)
(* score-calculator.ts).                                                   *)
(*                                                                         *)
(* A JavaScript string is a sequence of one-character strings.  A thrown   *)
(* Error is identified by the fixed part of its message.  Numbers are      *)
(* exact decimals (see the arithmetic section).                            *)
(*                                                                         *)
(* The state is one call of an entry point: cvssStr is the string it is    *)
(* given, called the entry point, thrown the error it threw ("none" when   *)
(* it returned), validationResult and scoreResult what it returned;        *)
(* roundUpInput and roundUpResult are the argument and the result of a     *)
(* call of roundUp.                                                        *)
(***************************************************************************)
EXTENDS Integers, Sequences, FiniteSets, TLC

VARIABLES cvssStr, called, thrown, validationResult, scoreResult, roundUpInput, roundUpResult

vars == <<cvssStr, called, thrown, validationResult, scoreResult, roundUpInput, roundUpResult>>

(***************************************************************************)
(* Strings                                                                 *)
(***************************************************************************)
Digits == {"0", "1", "2", "3", "4", "5", "6", "7", "8", "9"}

\* ECMAScript LineTerminator: what "." in a RegExp does not match.
LineTerminators == {"\n", "\r"}

\* ECMAScript WhiteSpace and LineTerminator: what String.prototype.trim strips.
WhiteSpace == {" ", "\t"} \cup LineTerminators

\* A value that may be undefined (JavaScript's undefined).
Undefined == [def |-> FALSE, val |-> <<>>]

Defined(s) == [def |-> TRUE, val |-> s]

\* JavaScript truthiness of string | undefined.
Truthy(u) == u.def /\ u.val # <<>>

\* String.prototype.startsWith
StartsWith(s, p) == Len(s) >= Len(p) /\ SubSeq(s, 1, Len(p)) = p

\* String.prototype.includes
Includes(s, p) == \E i \in 1..(Len(s) - Len(p) + 1) : SubSeq(s, i, i + Len(p) - 1) = p

\* String.prototype.substr(1)
Substr1(s) == SubSeq(s, 2, Len(s))

\* String.prototype.trim
Trim(s) ==
    LET keep == {i \in 1..Len(s) : s[i] \notin WhiteSpace}
    IN  IF keep = {} THEN <<>>
        ELSE LET lo == CHOOSE i \in keep : \A j \in keep : i <= j
                 hi == CHOOSE i \in keep : \A j \in keep : i >= j
             IN  SubSeq(s, lo, hi)

\* String.prototype.split(c) for a one-character separator: always
\* (number of separators + 1) pieces, "" included.
RECURSIVE Split(_, _)
Split(s, c) ==
    LET at == {i \in 1..Len(s) : s[i] = c}
    IN  IF at = {} THEN <<s>>
        ELSE LET i == CHOOSE k \in at : \A j \in at : k <= j
             IN  <<SubSeq(s, 1, i - 1)>> \o Split(SubSeq(s, i + 1, Len(s)), c)

(***************************************************************************)
(* models.ts: metric codes and their legal values                          *)
(***************************************************************************)
AV == <<"A", "V">>
AC == <<"A", "C">>
PR == <<"P", "R">>
UI == <<"U", "I">>
S == <<"S">>
C == <<"C">>
I == <<"I">>
A == <<"A">>
E == <<"E">>
RL == <<"R", "L">>
RC == <<"R", "C">>
CR == <<"C", "R">>
IR == <<"I", "R">>
AR == <<"A", "R">>
MAV == <<"M", "A", "V">>
MAC == <<"M", "A", "C">>
MPR == <<"M", "P", "R">>
MUI == <<"M", "U", "I">>
MS == <<"M", "S">>
MC == <<"M", "C">>
MI == <<"M", "I">>
MA == <<"M", "A">>

baseMetrics == <<AV, AC, PR, UI, S, C, I, A>>

temporalMetrics == <<E, RL, RC>>

environmentalMetrics == <<AR, CR, IR, MAV, MAC, MPR, MUI, MS, MC, MI, MA>>

\* The set of elements of a sequence (Array.prototype.includes is membership).
Range(seq) == {seq[i] : i \in 1..Len(seq)}

baseMetricValues(metric) ==
    CASE metric = AV -> {<<"N">>, <<"A">>, <<"L">>, <<"P">>}
      [] metric = AC -> {<<"L">>, <<"H">>}
      [] metric = PR -> {<<"N">>, <<"L">>, <<"H">>}
      [] metric = UI -> {<<"N">>, <<"R">>}
      [] metric = S -> {<<"U">>, <<"C">>}
      [] metric = C -> {<<"N">>, <<"L">>, <<"H">>}
      [] metric = I -> {<<"N">>, <<"L">>, <<"H">>}
      [] metric = A -> {<<"N">>, <<"L">>, <<"H">>}

temporalMetricValues(metric) ==
    CASE metric = E -> {<<"X">>, <<"H">>, <<"F">>, <<"P">>, <<"U">>}
      [] metric = RL -> {<<"X">>, <<"U">>, <<"W">>, <<"T">>, <<"O">>}
      [] metric = RC -> {<<"X">>, <<"C">>, <<"R">>, <<"U">>}

environmentalMetricValues(metric) ==
    CASE metric = CR -> {<<"X">>, <<"H">>, <<"M">>, <<"L">>}
      [] metric = IR -> {<<"X">>, <<"H">>, <<"M">>, <<"L">>}
      [] metric = AR -> {<<"X">>, <<"H">>, <<"M">>, <<"L">>}
      [] metric = MAV -> {<<"X">>, <<"N">>, <<"A">>, <<"L">>, <<"P">>}
      [] metric = MAC -> {<<"X">>, <<"L">>, <<"H">>}
      [] metric = MPR -> {<<"X">>, <<"N">>, <<"L">>, <<"H">>}
      [] metric = MUI -> {<<"X">>, <<"N">>, <<"R">>}
      [] metric = MS -> {<<"X">>, <<"U">>, <<"C">>}
      [] metric = MC -> {<<"X">>, <<"N">>, <<"L">>, <<"H">>}
      [] metric = MI -> {<<"X">>, <<"N">>, <<"L">>, <<"H">>}
      [] metric = MA -> {<<"X">>, <<"N">>, <<"L">>, <<"H">>}

(***************************************************************************)
(* Map<Metric, MetricValue>: a JavaScript Map keeps insertion order, so it *)
(* is a sequence of entries with distinct keys.                            *)
(***************************************************************************)
MapHas(m, k) == \E i \in 1..Len(m) : m[i].key = k

MapGet(m, k) == m[CHOOSE i \in 1..Len(m) : m[i].key = k].value

\* Map.prototype.set: an existing key keeps its position.
MapSet(m, k, v) ==
    IF MapHas(m, k)
    THEN [i \in 1..Len(m) |-> IF m[i].key = k THEN [key |-> k, value |-> v] ELSE m[i]]
    ELSE Append(m, [key |-> k, value |-> v])

MapKeys(m) == [i \in 1..Len(m) |-> m[i].key]

(***************************************************************************)
(* parser.ts                                                               *)
(***************************************************************************)
CvssPrefix == <<"C", "V", "S", "S", ":">>

\* VERSION_REGEX = /^CVSS:(\d(?:\.\d)?)(.*)?$/ : the match, as
\* [matched, version (group 1), rest (group 2)].  "." matches no line
\* terminator and "$" only the end of the input; an empty group 2 is left
\* undefined.
VERSION_REGEX(s) ==
    IF /\ StartsWith(s, CvssPrefix)
       /\ Len(s) >= 6
       /\ s[6] \in Digits
       /\ \A i \in 7..Len(s) : s[i] \notin LineTerminators
    THEN LET long == Len(s) >= 8 /\ s[7] = "." /\ s[8] \in Digits
             vEnd == IF long THEN 8 ELSE 6
             rest == SubSeq(s, vEnd + 1, Len(s))
         IN  [matched |-> TRUE,
              version |-> Defined(SubSeq(s, 6, vEnd)),
              rest |-> IF rest = <<>> THEN Undefined ELSE Defined(rest)]
    ELSE [matched |-> FALSE, version |-> Undefined, rest |-> Undefined]

parseVersion(s) == VERSION_REGEX(s).version

\* versionRegexRes?.[2]?.substr(1).trim()
parseVector(s) ==
    LET rest == VERSION_REGEX(s).rest
    IN  IF rest.def THEN Defined(Trim(Substr1(rest.val))) ELSE Undefined

\* const [key, value] = metric.split(":"): the first two pieces, the others
\* are dropped; a missing piece is undefined.
SegmentKeyValue(metric) ==
    LET parts == Split(metric, ":")
    IN  [key |-> Defined(parts[1]),
         value |-> IF Len(parts) >= 2 THEN Defined(parts[2]) ELSE Undefined]

\* The segments parseMetrics rejects: !(key && value).
InvalidSegment(metric) ==
    LET kv == SegmentKeyValue(metric)
    IN  ~(Truthy(kv.key) /\ Truthy(kv.value))

\* parseMetrics over the non-empty pieces of the split only
\* (split("/").filter(Boolean)): an empty segment is dropped unread.
parseMetricsSkippingEmpty(vectorStr) ==
    LET IsNonEmpty(metric) == metric # <<>>
        metrics == SelectSeq(Split(vectorStr, "/"), IsNonEmpty)
    IN  IF \E i \in 1..Len(metrics) : InvalidSegment(metrics[i])
        THEN [error |-> "Invalid metric", list |-> <<>>]
        ELSE [error |-> "none",
              list |-> [i \in 1..Len(metrics) |->
                          [key |-> SegmentKeyValue(metrics[i]).key.val,
                           value |-> SegmentKeyValue(metrics[i]).value.val]]]

\* parseMetrics: every segment is mapped before anything is folded, so the
\* first invalid segment throws whatever else the vector holds.
parseMetrics(vectorStr) ==
    LET metrics == Split(vectorStr, "/")
    IN  IF \E i \in 1..Len(metrics) : InvalidSegment(metrics[i])
        THEN [error |-> "Invalid metric", list |-> <<>>]
        ELSE [error |-> "none",
              list |-> [i \in 1..Len(metrics) |->
                          [key |-> SegmentKeyValue(metrics[i]).key.val,
                           value |-> SegmentKeyValue(metrics[i]).value.val]]]

\* The reduce without the res.has(key) test: a later occurrence of a key
\* overwrites the earlier value.
RECURSIVE FoldMetricsOverwriting(_, _, _)
FoldMetricsOverwriting(list, k, res) ==
    IF k > Len(list) THEN [error |-> "none", map |-> res]
    ELSE FoldMetricsOverwriting(list, k + 1, MapSet(res, list[k].key, list[k].value))

\* The reduce of parseMetricsAsMap over list[k..]: res.has(key) throws,
\* otherwise res.set(key, value).
RECURSIVE FoldMetrics(_, _, _)
FoldMetrics(list, k, res) ==
    IF k > Len(list) THEN [error |-> "none", map |-> res]
    ELSE IF MapHas(res, list[k].key) THEN [error |-> "Duplicated metric", map |-> <<>>]
    ELSE FoldMetrics(list, k + 1, MapSet(res, list[k].key, list[k].value))

\* parseMetrics(parseVector(cvssStr) || "").reduce(...)
parseMetricsAsMap(s) ==
    LET vectorStr == parseVector(s)
        parsed == parseMetrics(IF Truthy(vectorStr) THEN vectorStr.val ELSE <<>>)
    IN  IF parsed.error # "none" THEN [error |-> parsed.error, map |-> <<>>]
        ELSE FoldMetrics(parsed.list, 1, <<>>)

(***************************************************************************)
(* validator.ts                                                            *)
(***************************************************************************)
V30 == <<"3", ".", "0">>
V31 == <<"3", ".", "1">>

\* validateVersion without the test against 3.0 and 3.1.
validateVersionAnyVersion(versionStr) ==
    IF ~Truthy(versionStr) THEN "Invalid CVSS string" ELSE "none"

\* The error validateVersion throws, "none" when it returns.
validateVersion(versionStr) ==
    IF ~Truthy(versionStr) THEN "Invalid CVSS string"
    ELSE IF versionStr.val # V30 /\ versionStr.val # V31 THEN "Unsupported CVSS version"
    ELSE "none"

validateVector(vectorStr) ==
    IF ~Truthy(vectorStr) \/ Includes(vectorStr.val, <<"/", "/">>)
    THEN "Invalid CVSS string"
    ELSE "none"

allKnownMetrics == baseMetrics \o temporalMetrics \o environmentalMetrics

\* {...baseMetricValues, ...temporalMetricValues, ...environmentalMetricValues}
allKnownMetricsValues ==
    [metric \in Range(allKnownMetrics) |->
        IF metric \in Range(baseMetrics) THEN baseMetricValues(metric)
        ELSE IF metric \in Range(temporalMetrics) THEN temporalMetricValues(metric)
        ELSE environmentalMetricValues(metric)]

\* checkMandatoryMetrics that wants the Base metrics first and in the order
\* of baseMetrics.
checkMandatoryMetricsInOrder(metricsMap) ==
    IF \E i \in 1..Len(baseMetrics) :
          ~(i <= Len(metricsMap) /\ metricsMap[i].key = baseMetrics[i])
    THEN "Missing mandatory CVSS metric"
    ELSE "none"

checkMandatoryMetrics(metricsMap) ==
    IF \E i \in 1..Len(baseMetrics) : ~MapHas(metricsMap, baseMetrics[i])
    THEN "Missing mandatory CVSS metric"
    ELSE "none"

\* checkUnknownMetrics that lets every key through.
checkUnknownMetricsSkipped(metricsMap, knownMetrics) == "none"

checkUnknownMetrics(metricsMap, knownMetrics) ==
    IF \E i \in 1..Len(metricsMap) : metricsMap[i].key \notin Range(knownMetrics)
    THEN "Unknown CVSS metric"
    ELSE "none"

checkMetricsValues(metricsMap, metrics, metricsValues) ==
    IF \E i \in 1..Len(metrics) :
          /\ MapHas(metricsMap, metrics[i])
          /\ MapGet(metricsMap, metrics[i]) # <<>>
          /\ MapGet(metricsMap, metrics[i]) \notin metricsValues[metrics[i]]
    THEN "Invalid value for CVSS metric"
    ELSE "none"

NoValidation ==
    [metricsMap |-> <<>>, isTemporal |-> FALSE, isEnvironmental |-> FALSE,
     versionStr |-> Undefined]

ValidateThrow(e) == [error |-> e, result |-> NoValidation]

\* The error of the first check that threw, "none" when none did.
FirstThrown(errors) ==
    IF \A k \in 1..Len(errors) : errors[k] = "none" THEN "none"
    ELSE errors[CHOOSE k \in 1..Len(errors) :
                   errors[k] # "none" /\ \A j \in 1..(k - 1) : errors[j] = "none"]

\* What validate throws or returns once the checks gave their errors.
ValidateResult(error, metricsMap, versionStr) ==
    IF error # "none" THEN ValidateThrow(error)
    ELSE [error |-> "none",
          result |->
            [metricsMap |-> metricsMap,
             isTemporal |->
                \E i \in 1..Len(metricsMap) : metricsMap[i].key \in Range(temporalMetrics),
             isEnvironmental |->
                \E i \in 1..Len(metricsMap) :
                   metricsMap[i].key \in Range(environmentalMetrics),
             versionStr |-> versionStr]]

\* The checks of the map with checkUnknownMetrics called before
\* checkMandatoryMetrics.
ValidateMetricsUnknownFirst(metricsMap, versionStr) ==
    ValidateResult(
        FirstThrown(<<checkUnknownMetrics(metricsMap, allKnownMetrics),
                      checkMandatoryMetrics(metricsMap),
                      checkMetricsValues(metricsMap, allKnownMetrics,
                                         allKnownMetricsValues)>>),
        metricsMap, versionStr)

\* validate from the metrics map on: checkMandatoryMetrics,
\* checkUnknownMetrics, checkMetricsValues, then the result.
ValidateMetrics(metricsMap, versionStr) ==
    ValidateResult(
        FirstThrown(<<checkMandatoryMetrics(metricsMap),
                      checkUnknownMetrics(metricsMap, allKnownMetrics),
                      checkMetricsValues(metricsMap, allKnownMetrics,
                                         allKnownMetricsValues)>>),
        metricsMap, versionStr)

\* validate from the version on: validateVersion, the test !vectorStr,
\* validateVector, parseMetricsAsMap, then the checks of the map.
ValidateParsed(versionStr, vectorStr, parsed) ==
    IF validateVersion(versionStr) # "none"
    THEN ValidateThrow(validateVersion(versionStr))
    ELSE IF ~Truthy(vectorStr) THEN ValidateThrow("Invalid CVSS string")
    ELSE IF validateVector(vectorStr) # "none"
    THEN ValidateThrow(validateVector(vectorStr))
    ELSE IF parsed.error # "none" THEN ValidateThrow(parsed.error)
    ELSE ValidateMetrics(parsed.map, versionStr)

\* validate: the checks in the order of the code, the first that fails throws.
validate(s) ==
    IF ~StartsWith(s, CvssPrefix) THEN ValidateThrow("CVSS vector must start with CVSS:")
    ELSE ValidateParsed(parseVersion(s), parseVector(s), parseMetricsAsMap(s))

(***************************************************************************)
(* Arithmetic.  The code computes in IEEE-754 doubles; the model computes  *)
(* the same expressions in exact decimal arithmetic.  A natural number is  *)
(* a little-endian sequence of limbs in 0..9999 without high zero limbs,   *)
(* and a decimal is [neg, mag, scale], standing for                        *)
(* (-1)^neg * mag / 10000^scale, kept canonical (no low zero limb while    *)
(* scale > 0, zero never negative).                                        *)
(***************************************************************************)
Max(a, b) == IF a >= b THEN a ELSE b

Limb(a, k) == IF k <= Len(a) THEN a[k] ELSE 0

\* Drop high zero limbs.
BStrip(a) ==
    LET nz == {k \in 1..Len(a) : a[k] # 0}
    IN  IF nz = {} THEN <<>>
        ELSE SubSeq(a, 1, CHOOSE k \in nz : \A j \in nz : k >= j)

\* Carry propagation over limbs below 2^31 - 10^6: each pass leaves a limb its
\* low four digits and hands the rest to the next limb, until none exceeds
\* 9999.  (Passes instead of a limb-by-limb loop keep the evaluation shallow.)
RECURSIVE BCarry(_)
BCarry(c) ==
    IF \A k \in 1..Len(c) : c[k] < 10000 THEN c
    ELSE BCarry([k \in 1..(Len(c) + 1) |->
                    (IF k <= Len(c) THEN c[k] % 10000 ELSE 0)
                    + (IF k > 1 THEN c[k - 1] \div 10000 ELSE 0)])

BNat(n) == BStrip(BCarry(<<n>>))

BAdd(a, b) ==
    BStrip(BCarry([k \in 1..Max(Len(a), Len(b)) |-> Limb(a, k) + Limb(b, k)]))

\* -1, 0, 1 as a < b, a = b, a > b.
BCmp(a, b) ==
    IF Len(a) # Len(b) THEN (IF Len(a) < Len(b) THEN -1 ELSE 1)
    ELSE LET diff == {k \in 1..Len(a) : a[k] # b[k]}
         IN  IF diff = {} THEN 0
             ELSE LET k == CHOOSE i \in diff : \A j \in diff : i >= j
                  IN  IF a[k] < b[k] THEN -1 ELSE 1

\* Borrow propagation over limbs in -9999..9999: each pass lifts a negative
\* limb by 10000 and takes 1 from the next limb, until none is negative.
RECURSIVE BBorrow(_)
BBorrow(d) ==
    IF \A k \in 1..Len(d) : d[k] >= 0 THEN d
    ELSE BBorrow([k \in 1..Len(d) |->
                    (IF d[k] < 0 THEN d[k] + 10000 ELSE d[k])
                    - (IF k > 1 /\ d[k - 1] < 0 THEN 1 ELSE 0)])

\* a - b for a >= b.
BSub(a, b) == BStrip(BBorrow([k \in 1..Len(a) |-> a[k] - Limb(b, k)]))

\* The k-th limb of the product before carrying: the sum of a[i] * b[k+1-i].
RECURSIVE BConv(_, _, _, _)
BConv(a, b, k, i) ==
    IF i > Len(a) \/ i > k THEN 0
    ELSE (IF k + 1 - i <= Len(b) THEN a[i] * b[k + 1 - i] ELSE 0) + BConv(a, b, k, i + 1)

\* a * b, the shorter factor walked in BConv (at most 21 limbs).
BMul(a, b) ==
    IF a = <<>> \/ b = <<>> THEN <<>>
    ELSE LET s == IF Len(a) <= Len(b) THEN a ELSE b
             l == IF Len(a) <= Len(b) THEN b ELSE a
         IN  BStrip(BCarry([k \in 1..(Len(a) + Len(b)) |-> BConv(s, l, k, 1)]))

\* The value of a natural below 2^31.
RECURSIVE BInt(_)
BInt(a) == IF a = <<>> THEN 0 ELSE a[1] + 10000 * BInt(Tail(a))

\* k zero limbs below a (a * 10000^k).
BShift(a, k) == IF a = <<>> THEN <<>> ELSE [i \in 1..k |-> 0] \o a

Min(a, b) == IF a <= b THEN a ELSE b

\* The number of zero limbs below the lowest non-zero limb of m # <<>>.
LowZeros(m) ==
    (CHOOSE k \in 1..Len(m) : m[k] # 0 /\ \A j \in 1..(k - 1) : m[j] = 0) - 1

\* m / 10000^scale without its drop lowest limbs (all zero).
DDrop(neg, m, scale, drop) ==
    [neg |-> neg, mag |-> SubSeq(m, drop + 1, Len(m)), scale |-> scale - drop]

\* Canonical form of (-1)^neg * m / 10000^scale for m without high zero limbs.
DCanonStripped(neg, m, scale) ==
    IF m = <<>> THEN [neg |-> FALSE, mag |-> <<>>, scale |-> 0]
    ELSE DDrop(neg, m, scale, Min(LowZeros(m), scale))

\* Canonical form of (-1)^neg * mag / 10000^scale.
DCanon(neg, mag, scale) == DCanonStripped(neg, BStrip(mag), scale)

\* The decimal n / 10000 (n >= 0): 0.85 is Dec4(8500), 6.42 is Dec4(64200).
Dec4(n) == DCanon(FALSE, BNat(n), 1)

\* The decimal of a natural number.
DNat(n) == DCanon(FALSE, BNat(n), 0)

DNeg(x) == DCanon(~x.neg, x.mag, x.scale)

DMul(x, y) == DCanon(x.neg # y.neg, BMul(x.mag, y.mag), x.scale + y.scale)

\* (-1)^xneg * xm + (-1)^yneg * ym, over 10000^sc.
DAddAligned(xneg, xm, yneg, ym, sc) ==
    IF xneg = yneg THEN DCanon(xneg, BAdd(xm, ym), sc)
    ELSE IF BCmp(xm, ym) >= 0 THEN DCanon(xneg, BSub(xm, ym), sc)
    ELSE DCanon(yneg, BSub(ym, xm), sc)

DAdd(x, y) ==
    DAddAligned(x.neg, BShift(x.mag, Max(x.scale, y.scale) - x.scale),
                y.neg, BShift(y.mag, Max(x.scale, y.scale) - y.scale),
                Max(x.scale, y.scale))

DSub(x, y) == DAdd(x, DNeg(y))

DIsZero(x) == x.mag = <<>>

\* x <= 0
DNonPositive(x) == x.neg \/ DIsZero(x)

\* x <= y
DLeq(x, y) == DNonPositive(DSub(x, y))

\* Math.min
DMin(x, y) == IF DLeq(x, y) THEN x ELSE y

\* acc * x^n, one product at a time (each is worked out, by the test on
\* its scale, before the next).
RECURSIVE DPowFrom(_, _, _)
RECURSIVE DPowNext(_, _, _)
DPowNext(x, n, next) == IF next.scale >= 0 THEN DPowFrom(x, n - 1, next) ELSE next

DPowFrom(x, n, acc) == IF n = 0 THEN acc ELSE DPowNext(x, n, DMul(acc, x))

\* x ** n for a natural exponent n.
DPow(x, n) == DPowFrom(x, n, DNat(1))

\* Math.floor, as an integer.
DFloor(x) ==
    IF ~x.neg THEN BInt(SubSeq(x.mag, x.scale + 1, Len(x.mag)))
    ELSE IF x.scale = 0 THEN -BInt(x.mag)
    ELSE -(BInt(SubSeq(x.mag, x.scale + 1, Len(x.mag))) + 1)

\* Math.round: floor(x + 0.5).
MathRound(x) == DFloor(DAdd(x, Dec4(5000)))

\* The decimal of an integer.
DInt(n) == IF n < 0 THEN DNeg(DNat(-n)) ELSE DNat(n)

\* n / 100000 and n / 10 for an integer n.
DDiv100000(n) == DMul(DInt(n), DCanon(FALSE, <<1000>>, 2))

DDiv10(n) == DMul(DInt(n), Dec4(1000))

(***************************************************************************)
(* score-calculator.ts.  A function that may throw returns                 *)
(* [error, ...]: error is "none" when it returns normally.                 *)
(***************************************************************************)
Num(x) == [error |-> "none", num |-> x]

NumThrow(e) == [error |-> e, num |-> DNat(0)]

\* The error of the first operand that threw, in evaluation order.
FirstError(rs) ==
    IF \A k \in 1..Len(rs) : rs[k].error = "none" THEN "none"
    ELSE rs[CHOOSE k \in 1..Len(rs) :
               rs[k].error # "none" /\ \A j \in 1..(k - 1) : rs[j].error = "none"].error

\* Map.prototype.get: undefined for a missing key.
MapGetOrUndefined(m, k) == IF MapHas(m, k) THEN Defined(MapGet(m, k)) ELSE Undefined

\* The weight tables; a value missing from a metric's table is undefined.
baseMetricValueScores(metric, value) ==
    CASE metric = AV /\ value = <<"N">> -> Defined(Dec4(8500))
      [] metric = AV /\ value = <<"A">> -> Defined(Dec4(6200))
      [] metric = AV /\ value = <<"L">> -> Defined(Dec4(5500))
      [] metric = AV /\ value = <<"P">> -> Defined(Dec4(2000))
      [] metric = AC /\ value = <<"L">> -> Defined(Dec4(7700))
      [] metric = AC /\ value = <<"H">> -> Defined(Dec4(4400))
      [] metric = UI /\ value = <<"N">> -> Defined(Dec4(8500))
      [] metric = UI /\ value = <<"R">> -> Defined(Dec4(6200))
      [] metric = S /\ value \in {<<"U">>, <<"C">>} -> Defined(DNat(0))
      [] metric \in {C, I, A} /\ value = <<"N">> -> Defined(DNat(0))
      [] metric \in {C, I, A} /\ value = <<"L">> -> Defined(Dec4(2200))
      [] metric \in {C, I, A} /\ value = <<"H">> -> Defined(Dec4(5600))
      [] OTHER -> Undefined

\* The Temporal table with the weight of RL:O entered as 1.95 instead of 0.95.
temporalMetricValueScoresAboveOne(metric, value) ==
    CASE metric = E /\ value \in {<<"X">>, <<"H">>} -> Defined(DNat(1))
      [] metric = E /\ value = <<"U">> -> Defined(Dec4(9100))
      [] metric = E /\ value = <<"F">> -> Defined(Dec4(9700))
      [] metric = E /\ value = <<"P">> -> Defined(Dec4(9400))
      [] metric = RL /\ value \in {<<"X">>, <<"U">>} -> Defined(DNat(1))
      [] metric = RL /\ value = <<"O">> -> Defined(Dec4(19500))
      [] metric = RL /\ value = <<"T">> -> Defined(Dec4(9600))
      [] metric = RL /\ value = <<"W">> -> Defined(Dec4(9700))
      [] metric = RC /\ value \in {<<"X">>, <<"C">>} -> Defined(DNat(1))
      [] metric = RC /\ value = <<"U">> -> Defined(Dec4(9200))
      [] metric = RC /\ value = <<"R">> -> Defined(Dec4(9600))
      [] OTHER -> Undefined

temporalMetricValueScores(metric, value) ==
    CASE metric = E /\ value \in {<<"X">>, <<"H">>} -> Defined(DNat(1))
      [] metric = E /\ value = <<"U">> -> Defined(Dec4(9100))
      [] metric = E /\ value = <<"F">> -> Defined(Dec4(9700))
      [] metric = E /\ value = <<"P">> -> Defined(Dec4(9400))
      [] metric = RL /\ value \in {<<"X">>, <<"U">>} -> Defined(DNat(1))
      [] metric = RL /\ value = <<"O">> -> Defined(Dec4(9500))
      [] metric = RL /\ value = <<"T">> -> Defined(Dec4(9600))
      [] metric = RL /\ value = <<"W">> -> Defined(Dec4(9700))
      [] metric = RC /\ value \in {<<"X">>, <<"C">>} -> Defined(DNat(1))
      [] metric = RC /\ value = <<"U">> -> Defined(Dec4(9200))
      [] metric = RC /\ value = <<"R">> -> Defined(Dec4(9600))
      [] OTHER -> Undefined

\* The Base metric whose table a Modified metric shares.
modifiedMetricsMap(metric) ==
    CASE metric = MAV -> Defined(AV)
      [] metric = MAC -> Defined(AC)
      [] metric = MPR -> Defined(PR)
      [] metric = MUI -> Defined(UI)
      [] metric = MS -> Defined(S)
      [] metric = MC -> Defined(C)
      [] metric = MI -> Defined(I)
      [] metric = MA -> Defined(A)
      [] OTHER -> Undefined

environmentalMetricValueScores(metric, value) ==
    CASE metric \in {CR, IR, AR} /\ value \in {<<"M">>, <<"X">>} -> Defined(DNat(1))
      [] metric \in {CR, IR, AR} /\ value = <<"L">> -> Defined(Dec4(5000))
      [] metric \in {CR, IR, AR} /\ value = <<"H">> -> Defined(Dec4(15000))
      [] metric \in {MAV, MAC, MUI, MS, MC, MI, MA} ->
            baseMetricValueScores(modifiedMetricsMap(metric).val, value)
      [] OTHER -> Undefined

\* getPrivilegesRequiredNumericValue without the case "H".
getPrivilegesRequiredNumericValueNoHigh(value, scopeValue) ==
    IF scopeValue # <<"U">> /\ scopeValue # <<"C">> THEN NumThrow("Unknown Scope value")
    ELSE CASE value = <<"N">> -> Num(Dec4(8500))
           [] value = <<"L">> ->
                 Num(IF scopeValue = <<"U">> THEN Dec4(6200) ELSE Dec4(6800))
           [] OTHER -> NumThrow("Unknown PrivilegesRequired value")

getPrivilegesRequiredNumericValue(value, scopeValue) ==
    IF scopeValue # <<"U">> /\ scopeValue # <<"C">> THEN NumThrow("Unknown Scope value")
    ELSE CASE value = <<"N">> -> Num(Dec4(8500))
           [] value = <<"L">> ->
                 Num(IF scopeValue = <<"U">> THEN Dec4(6200) ELSE Dec4(6800))
           [] value = <<"H">> ->
                 Num(IF scopeValue = <<"U">> THEN Dec4(2700) ELSE Dec4(5000))
           [] OTHER -> NumThrow("Unknown PrivilegesRequired value")

\* The entry of the merged table {...base, ...temporal, ...environmental}
\* for the metric: has it a table, and what the table gives the value.
MergedScore(metric, value) ==
    IF metric \in Range(baseMetrics) \ {PR}
    THEN [table |-> TRUE, weight |-> baseMetricValueScores(metric, value)]
    ELSE IF metric \in Range(temporalMetrics)
    THEN [table |-> TRUE, weight |-> temporalMetricValueScores(metric, value)]
    ELSE IF metric \in Range(environmentalMetrics) \ {MPR}
    THEN [table |-> TRUE, weight |-> environmentalMetricValueScores(metric, value)]
    ELSE [table |-> FALSE, weight |-> Undefined]

\* The end of getMetricNumericValue, on the entry of the merged table.
NumericValueOf(score) ==
    IF ~score.table THEN NumThrow("Internal error. Missing metric score")
    ELSE IF ~score.weight.def THEN NumThrow("Unknown metric value")
    ELSE Num(score.weight.val)

\* getMetricNumericValue that takes the Base metric S as the scope of MPR too.
getMetricNumericValueBaseScope(metric, metricsMap) ==
    IF ~MapHas(metricsMap, metric) THEN NumThrow("Missing metric")
    ELSE IF metric \in {PR, MPR}
    THEN IF ~MapHas(metricsMap, S) THEN NumThrow("Missing metric")
         ELSE getPrivilegesRequiredNumericValue(MapGet(metricsMap, metric),
                                                MapGet(metricsMap, S))
    ELSE NumericValueOf(MergedScore(metric, MapGet(metricsMap, metric)))

getMetricNumericValue(metric, metricsMap) ==
    IF ~MapHas(metricsMap, metric) THEN NumThrow("Missing metric")
    ELSE IF metric = PR
    THEN IF ~MapHas(metricsMap, S) THEN NumThrow("Missing metric")
         ELSE getPrivilegesRequiredNumericValue(MapGet(metricsMap, metric),
                                                MapGet(metricsMap, S))
    ELSE IF metric = MPR
    THEN IF ~MapHas(metricsMap, MS) THEN NumThrow("Missing metric")
         ELSE getPrivilegesRequiredNumericValue(MapGet(metricsMap, metric),
                                                MapGet(metricsMap, MS))
    ELSE NumericValueOf(MergedScore(metric, MapGet(metricsMap, metric)))

One == DNat(1)

\* 1 - (1 - a) * (1 - b) * (1 - c)
OneMinusProduct(a, b, c) ==
    DSub(One, DMul(DMul(DSub(One, a), DSub(One, b)), DSub(One, c)))

\* The ISS of the weights <<confidentiality, integrity, availability>>,
\* which may have thrown.
IssOf(rs) ==
    IF FirstError(rs) # "none" THEN NumThrow(FirstError(rs))
    ELSE Num(OneMinusProduct(rs[1].num, rs[2].num, rs[3].num))

calculateIss(metricsMap) ==
    IssOf(<<getMetricNumericValue(C, metricsMap),
            getMetricNumericValue(I, metricsMap),
            getMetricNumericValue(A, metricsMap)>>)

\* The MISS of the weights <<rConfidentiality, mConfidentiality, rIntegrity,
\* mIntegrity, rAvailability, mAvailability>>, which may have thrown.
MissOf(rs) ==
    IF FirstError(rs) # "none" THEN NumThrow(FirstError(rs))
    ELSE Num(DMin(OneMinusProduct(DMul(rs[1].num, rs[2].num),
                                  DMul(rs[3].num, rs[4].num),
                                  DMul(rs[5].num, rs[6].num)),
                  Dec4(9150)))

calculateMiss(metricsMap) ==
    MissOf(<<getMetricNumericValue(CR, metricsMap),
             getMetricNumericValue(MC, metricsMap),
             getMetricNumericValue(IR, metricsMap),
             getMetricNumericValue(MI, metricsMap),
             getMetricNumericValue(AR, metricsMap),
             getMetricNumericValue(MA, metricsMap)>>)

\* calculateImpact with the equation of Scope Changed for every vector.
calculateImpactAsChanged(metricsMap, iss) ==
    DSub(DMul(Dec4(75200), DSub(iss, Dec4(290))),
         DMul(Dec4(32500), DPow(DSub(iss, Dec4(200)), 15)))

calculateImpact(metricsMap, iss) ==
    IF MapGetOrUndefined(metricsMap, S) = Defined(<<"U">>)
    THEN DMul(Dec4(64200), iss)
    ELSE DSub(DMul(Dec4(75200), DSub(iss, Dec4(290))),
              DMul(Dec4(32500), DPow(DSub(iss, Dec4(200)), 15)))

\* calculateModifiedImpact with the constants of the two versions exchanged.
calculateModifiedImpactExchanged(metricsMap, miss, versionStr) ==
    IF MapGetOrUndefined(metricsMap, MS) = Defined(<<"U">>)
    THEN DMul(Dec4(64200), miss)
    ELSE DSub(DMul(Dec4(75200), DSub(miss, Dec4(290))),
              DMul(Dec4(32500),
                   DPow(DSub(DMul(miss, IF versionStr = V30 THEN Dec4(9731) ELSE One),
                             Dec4(200)),
                        IF versionStr = V30 THEN 13 ELSE 15)))

calculateModifiedImpact(metricsMap, miss, versionStr) ==
    IF MapGetOrUndefined(metricsMap, MS) = Defined(<<"U">>)
    THEN DMul(Dec4(64200), miss)
    ELSE DSub(DMul(Dec4(75200), DSub(miss, Dec4(290))),
              DMul(Dec4(32500),
                   DPow(DSub(DMul(miss, IF versionStr = V30 THEN One ELSE Dec4(9731)),
                             Dec4(200)),
                        IF versionStr = V30 THEN 15 ELSE 13)))

\* 8.22 * a * b * c * d over operands that may have thrown.
Product822(rs) ==
    IF FirstError(rs) # "none" THEN NumThrow(FirstError(rs))
    ELSE Num(DMul(DMul(DMul(DMul(Dec4(82200), rs[1].num), rs[2].num), rs[3].num),
                  rs[4].num))

calculateExploitability(metricsMap) ==
    Product822(<<getMetricNumericValue(AV, metricsMap),
                 getMetricNumericValue(AC, metricsMap),
                 getMetricNumericValue(PR, metricsMap),
                 getMetricNumericValue(UI, metricsMap)>>)

calculateModifiedExploitability(metricsMap) ==
    Product822(<<getMetricNumericValue(MAV, metricsMap),
                 getMetricNumericValue(MAC, metricsMap),
                 getMetricNumericValue(MPR, metricsMap),
                 getMetricNumericValue(MUI, metricsMap)>>)

\* The return of roundUp without the test of divisibility: always the next
\* tenth.
RoundUpIntNextTenth(intInput) == DDiv10((intInput \div 10000) + 1)

\* The return of roundUp as a rounding to the nearest tenth, the half upwards.
RoundUpIntHalfUp(intInput) == DDiv10((intInput + 5000) \div 10000)

\* roundUp after const intInput = Math.round(input * 100000).
RoundUpInt(intInput) ==
    IF intInput % 10000 = 0
    THEN DDiv100000(intInput)
    ELSE DDiv10((intInput \div 10000) + 1)

\* roundUp that returns its input as it is.
roundUpUnrounded(input) == input

\* roundUp: one decimal place, upwards, on the input scaled by 100000.
roundUp(input) == RoundUpInt(MathRound(DMul(input, DNat(100000))))

\* populateTemporalMetricDefaults over temporalMetrics[k..].
RECURSIVE TemporalDefaultsFrom(_, _)
TemporalDefaultsFrom(metricsMap, k) ==
    IF k > Len(temporalMetrics) THEN metricsMap
    ELSE TemporalDefaultsFrom(
            IF MapHas(metricsMap, temporalMetrics[k]) THEN metricsMap
            ELSE MapSet(metricsMap, temporalMetrics[k], <<"X">>),
            k + 1)

\* populateTemporalMetricDefaults that adds nothing.
populateTemporalMetricDefaultsNone(metricsMap) == metricsMap

populateTemporalMetricDefaults(metricsMap) == TemporalDefaultsFrom(metricsMap, 1)

\* One turn of the loop of populateEnvironmentalMetricDefaults.
EnvironmentalDefaultStep(metricsMap, metric) ==
    LET m1 == IF MapHas(metricsMap, metric) THEN metricsMap
              ELSE MapSet(metricsMap, metric, <<"X">>)
        modifiedMetric == modifiedMetricsMap(metric)
    IN  IF MapGet(m1, metric) # <<"X">> THEN [error |-> "none", map |-> m1]
        ELSE IF ~modifiedMetric.def
        THEN [error |-> "Missing modified metric", map |-> m1]
        ELSE [error |-> "none",
              map |-> MapSet(m1, metric,
                             IF MapHas(m1, modifiedMetric.val)
                             THEN MapGet(m1, modifiedMetric.val)
                             ELSE <<"X">>)]

\* populateEnvironmentalMetricDefaults over environmentalMetrics[k..].
RECURSIVE EnvironmentalDefaultsFrom(_, _)
EnvironmentalDefaultsFrom(metricsMap, k) ==
    IF k > Len(environmentalMetrics) THEN [error |-> "none", map |-> metricsMap]
    ELSE LET step == EnvironmentalDefaultStep(metricsMap, environmentalMetrics[k])
         IN  IF step.error # "none" THEN step
             ELSE EnvironmentalDefaultsFrom(step.map, k + 1)

populateEnvironmentalMetricDefaults(metricsMap) == EnvironmentalDefaultsFrom(metricsMap, 1)

Zero == DNat(0)

Ten == DNat(10)

NoScore ==
    [score |-> Zero, impact |-> Zero, exploitability |-> Zero, metricsMap |-> <<>>]

ScoreThrow(e) == [error |-> e, result |-> NoScore]

\* The score of calculateBaseResult without the test impact <= 0.
BaseScoreOfNoFloor(impact, exploitability, scopeUnchanged) ==
    IF scopeUnchanged THEN roundUp(DMin(DAdd(impact, exploitability), Ten))
    ELSE roundUp(DMin(DMul(Dec4(10800), DAdd(impact, exploitability)), Ten))

\* const score = impact <= 0 ? 0 : scopeUnchanged ? ... : ... of calculateBaseResult.
BaseScoreOf(impact, exploitability, scopeUnchanged) ==
    IF DLeq(impact, Zero) THEN Zero
    ELSE IF scopeUnchanged THEN roundUp(DMin(DAdd(impact, exploitability), Ten))
    ELSE roundUp(DMin(DMul(Dec4(10800), DAdd(impact, exploitability)), Ten))

\* impact <= 0 ? 0 : roundUp(x), for the impact and exploitability of a result.
SubScoreOf(impact, x) == IF DLeq(impact, Zero) THEN Zero ELSE roundUp(x)

\* calculateBaseResult once impact and exploitability are computed.
BaseResultOfImpact(metricsMap, impact, exploitability, scopeUnchanged) ==
    [error |-> "none",
     result |->
        [score |-> BaseScoreOf(impact, exploitability, scopeUnchanged),
         metricsMap |-> metricsMap,
         impact |-> SubScoreOf(impact, impact),
         exploitability |-> SubScoreOf(impact, exploitability)]]

\* calculateBaseResult once calculateIss and calculateExploitability returned
\* or threw.
BaseResultOfParts(metricsMap, iss, exploitability) ==
    IF iss.error # "none" THEN ScoreThrow(iss.error)
    ELSE IF exploitability.error # "none" THEN ScoreThrow(exploitability.error)
    ELSE BaseResultOfImpact(metricsMap, calculateImpact(metricsMap, iss.num),
                            exploitability.num,
                            MapGetOrUndefined(metricsMap, S) = Defined(<<"U">>))

\* calculateBaseResult once validate returned or threw.
BaseResultOfValidation(v) ==
    IF v.error # "none" THEN ScoreThrow(v.error)
    ELSE BaseResultOfParts(v.result.metricsMap, calculateIss(v.result.metricsMap),
                           calculateExploitability(v.result.metricsMap))

calculateBaseResult(cvssString) == BaseResultOfValidation(validate(cvssString))

\* const { score } = result, when the call returned.
ScoreOf(r) == [error |-> r.error, num |-> r.result.score]

calculateBaseScore(cvssString) == ScoreOf(calculateBaseResult(cvssString))

\* a * w1 * w2 * w3 over weights that may have thrown.
TimesWeights(a, ws) ==
    IF FirstError(ws) # "none" THEN NumThrow(FirstError(ws))
    ELSE Num(DMul(DMul(DMul(a, ws[1].num), ws[2].num), ws[3].num))

\* roundUp of a number that may have thrown.
RoundUpOf(r) == IF r.error # "none" THEN r ELSE Num(roundUp(r.num))

\* The score of calculateEnvironmentalResult: 0 for impact <= 0, otherwise
\* the rounded inner score times the Temporal weights, rounded.
EnvironmentalScoreOf(metricsMap, impact, exploitability, scopeUnchanged) ==
    IF DLeq(impact, Zero) THEN Num(Zero)
    ELSE RoundUpOf(
            TimesWeights(
                IF scopeUnchanged THEN roundUp(DMin(DAdd(impact, exploitability), Ten))
                ELSE roundUp(DMin(DMul(Dec4(10800), DAdd(impact, exploitability)), Ten)),
                <<getMetricNumericValue(E, metricsMap),
                  getMetricNumericValue(RL, metricsMap),
                  getMetricNumericValue(RC, metricsMap)>>))

\* calculateEnvironmentalResult once the score is computed or threw.
EnvironmentalResultOfScore(metricsMap, impact, exploitability, score) ==
    IF score.error # "none" THEN ScoreThrow(score.error)
    ELSE [error |-> "none",
          result |->
            [score |-> score.num,
             metricsMap |-> metricsMap,
             impact |-> SubScoreOf(impact, impact),
             exploitability |-> SubScoreOf(impact, exploitability)]]

\* calculateEnvironmentalResult once impact is computed and
\* calculateModifiedExploitability returned or threw.
EnvironmentalResultOfImpact(metricsMap, impact, exploitability) ==
    IF exploitability.error # "none" THEN ScoreThrow(exploitability.error)
    ELSE EnvironmentalResultOfScore(
            metricsMap, impact, exploitability.num,
            EnvironmentalScoreOf(metricsMap, impact, exploitability.num,
                                 MapGetOrUndefined(metricsMap, MS) = Defined(<<"U">>)))

\* calculateEnvironmentalResult once calculateMiss returned or threw.
EnvironmentalResultOfMiss(metricsMap, versionStr, miss) ==
    IF miss.error # "none" THEN ScoreThrow(miss.error)
    ELSE IF ~Truthy(versionStr) THEN ScoreThrow("Version not found")
    ELSE EnvironmentalResultOfImpact(
            metricsMap, calculateModifiedImpact(metricsMap, miss.num, versionStr.val),
            calculateModifiedExploitability(metricsMap))

\* calculateEnvironmentalResult once the defaults are populated or threw.
EnvironmentalResultOfDefaults(populated, versionStr) ==
    IF populated.error # "none" THEN ScoreThrow(populated.error)
    ELSE EnvironmentalResultOfMiss(populated.map, versionStr, calculateMiss(populated.map))

\* calculateEnvironmentalResult once validate returned or threw.
EnvironmentalResultOfValidation(v) ==
    IF v.error # "none" THEN ScoreThrow(v.error)
    ELSE EnvironmentalResultOfDefaults(
            populateEnvironmentalMetricDefaults(
                populateTemporalMetricDefaults(v.result.metricsMap)),
            v.result.versionStr)

calculateEnvironmentalResult(cvssString) ==
    EnvironmentalResultOfValidation(validate(cvssString))

calculateEnvironmentalScore(cvssString) ==
    ScoreOf(calculateEnvironmentalResult(cvssString))

\* calculateTemporalResult once tempScore is computed or threw.
TemporalResultOfScore(metricsMap, base, tempScore) ==
    IF tempScore.error # "none" THEN ScoreThrow(tempScore.error)
    ELSE [error |-> "none",
          result |->
            [score |-> tempScore.num,
             metricsMap |-> metricsMap,
             impact |-> base.impact,
             exploitability |-> base.exploitability]]

\* calculateTemporalResult once the defaults are populated and
\* calculateBaseResult returned.
TemporalResultOfBase(metricsMap, base) ==
    TemporalResultOfScore(
        metricsMap, base,
        RoundUpOf(TimesWeights(base.score,
                               <<getMetricNumericValue(RC, metricsMap),
                                 getMetricNumericValue(E, metricsMap),
                                 getMetricNumericValue(RL, metricsMap)>>)))

\* calculateTemporalResult once validate and calculateBaseResult returned or
\* threw.
TemporalResultOfValidation(v, base) ==
    IF v.error # "none" THEN ScoreThrow(v.error)
    ELSE IF base.error # "none" THEN ScoreThrow(base.error)
    ELSE TemporalResultOfBase(populateTemporalMetricDefaults(v.result.metricsMap),
                              base.result)

calculateTemporalResult(cvssString) ==
    TemporalResultOfValidation(validate(cvssString), calculateBaseResult(cvssString))

calculateTemporalScore(cvssString) == ScoreOf(calculateTemporalResult(cvssString))

(***************************************************************************)
(* Inputs                                                                  *)
(***************************************************************************)
\* The segment "key:value".
Seg(key, value) == key \o <<":">> \o value

\* The segments joined by "/".
RECURSIVE Join(_)
Join(segs) ==
    IF segs = <<>> THEN <<>>
    ELSE IF Len(segs) = 1 THEN segs[1]
    ELSE segs[1] \o <<"/">> \o Join(Tail(segs))

\* Every assignment of a legal value to each of the 8 Base metrics, as the
\* sequence of its segments in the canonical order.
BaseSegments ==
    {<<Seg(AV, av), Seg(AC, ac), Seg(PR, pr), Seg(UI, ui), Seg(S, s), Seg(C, c),
       Seg(I, i), Seg(A, a)>> :
        av \in baseMetricValues(AV), ac \in baseMetricValues(AC),
        pr \in baseMetricValues(PR), ui \in baseMetricValues(UI),
        s \in baseMetricValues(S), c \in baseMetricValues(C),
        i \in baseMetricValues(I), a \in baseMetricValues(A)}

\* The vector string of a version and its segments.
Vector(version, segs) == CvssPrefix \o version \o <<"/">> \o Join(segs)

\* The segment of a metric, or no segment when the value is "absent".
Opt(metric, value) == IF value = "absent" THEN <<>> ELSE <<Seg(metric, <<value>>)>>

\* Slice 1: every Base vector, no other metric.
AllBaseInputs == {Vector(V31, b) : b \in BaseSegments}

\* Slice 2: a few Base vectors under every choice of Temporal metrics, each
\* absent or with one of its legal values.
TemporalInputs ==
    {Vector(V31, <<Seg(AV, <<"N">>), Seg(AC, <<"L">>), Seg(PR, <<"L">>), Seg(UI, <<"N">>),
                   Seg(S, s), Seg(C, c), Seg(I, <<"N">>), Seg(A, a)>>
                 \o Opt(E, e) \o Opt(RL, rl) \o Opt(RC, rc)) :
        s \in {<<"U">>, <<"C">>}, c \in {<<"N">>, <<"H">>}, a \in {<<"N">>, <<"H">>},
        e \in {"absent", "X", "H", "F", "P", "U"},
        rl \in {"absent", "X", "U", "W", "T", "O"},
        rc \in {"absent", "X", "C", "R", "U"}}

\* Choices of Modified and Temporal metrics for slice 3.
ModifiedChoices ==
    {<<>>,
     <<Seg(MS, <<"C">>)>>,
     <<Seg(MS, <<"U">>), Seg(MPR, <<"H">>), Seg(MAV, <<"P">>), Seg(E, <<"U">>),
       Seg(RL, <<"O">>)>>,
     <<Seg(MC, <<"N">>), Seg(MI, <<"N">>), Seg(MA, <<"N">>)>>,
     <<Seg(MC, <<"H">>), Seg(MI, <<"L">>), Seg(MAC, <<"X">>), Seg(MUI, <<"X">>),
       Seg(MS, <<"X">>), Seg(RC, <<"R">>)>>}

\* Slice 3: both versions, a few Base vectors, every choice of the three
\* Requirement metrics among absent, X, H and L, and the Modified choices.
EnvironmentalInputs ==
    {Vector(v, <<Seg(AV, <<"N">>), Seg(AC, <<"L">>), Seg(PR, <<"L">>), Seg(UI, <<"N">>),
                 Seg(S, s), Seg(C, cia), Seg(I, cia), Seg(A, cia)>>
               \o Opt(CR, cr) \o Opt(IR, ir) \o Opt(AR, ar) \o m) :
        v \in {V30, V31}, s \in {<<"U">>, <<"C">>}, cia \in {<<"N">>, <<"H">>},
        cr \in {"absent", "X", "H", "L"}, ir \in {"absent", "X", "H", "L"},
        ar \in {"absent", "X", "H", "L"}, m \in ModifiedChoices}

\* Slice 4: the vector that the error messages of validate give as their
\* example, a 3.0 vector.
ExampleInputs ==
    {Vector(V30, <<Seg(AV, <<"A">>), Seg(AC, <<"H">>), Seg(PR, <<"H">>), Seg(UI, <<"R">>),
                   Seg(S, <<"U">>), Seg(C, <<"N">>), Seg(I, <<"N">>), Seg(A, <<"L">>)>>)}

ScoreInputs == AllBaseInputs \cup TemporalInputs \cup EnvironmentalInputs \cup ExampleInputs

(***************************************************************************)
(* Malformed inputs: the string CVSS:3.1/AV:N/AC:L/PR:N/UI:N/S:U/C:H/I:H/A:H *)
(* with at most MaxEdits of its parts (sites) replaced by a variant.       *)
(***************************************************************************)
MaxEdits == 2

ZZ == <<"Z", "Z">>

\* Site 1, the prefix "CVSS:": missing, in lower case, after a space.
PrefixVariants == <<<<>>, <<"c", "v", "s", "s", ":">>, <<" ">> \o CvssPrefix>>

\* Site 2, the version "3.1": 3.0, 2.0, 3, absent, "3.".
VersionVariants == <<V30, <<"2", ".", "0">>, <<"3">>, <<>>, <<"3", ".">>>>

\* Site 3, the separator "/" after the version: another character, a digit,
\* nothing, "//".
SeparatorVariants == <<<<"X">>, <<"1">>, <<>>, <<"/", "/">>>>

\* Sites 4..6, a Base segment key:value: dropped, without colon, with an
\* empty key, with an empty value, with a second colon, after an empty
\* segment, with an illegal value, with an unknown key, followed by an
\* unknown metric, repeated, repeated with another value, with another
\* legal value.
SegmentVariants(key, value, other) ==
    <<<<>>,
      <<key>>,
      <<<<":">> \o value>>,
      <<key \o <<":">>>>,
      <<Seg(key, value) \o <<":", "X">>>>,
      <<<<>>, Seg(key, value)>>,
      <<Seg(key, <<"Z">>)>>,
      <<Seg(ZZ, value)>>,
      <<Seg(key, value), Seg(ZZ, <<"N">>)>>,
      <<Seg(key, value), Seg(key, value)>>,
      <<Seg(key, value), Seg(key, other)>>,
      <<Seg(key, other)>>>>

\* Site 7, the segments after the Base metrics (none): Temporal and
\* Environmental metrics, an illegal Temporal value, an unknown metric
\* twice, a Temporal metric twice.
ExtraVariants ==
    <<<<Seg(E, <<"X">>)>>,
      <<Seg(E, <<"U">>), Seg(RL, <<"O">>), Seg(RC, <<"C">>)>>,
      <<Seg(CR, <<"H">>), Seg(MS, <<"C">>)>>,
      <<Seg(E, <<"Q">>)>>,
      <<Seg(ZZ, <<"N">>), Seg(ZZ, <<"N">>)>>,
      <<Seg(E, <<"X">>), Seg(E, <<"H">>)>>>>

\* Site 8, the end of the string (nothing): a space, "/", a line feed, "/ ".
TailVariants == <<<<" ">>, <<"/">>, <<"\n">>, <<"/", " ">>>>

Sites == 1..8

NumVariants(site) ==
    CASE site = 1 -> Len(PrefixVariants)
      [] site = 2 -> Len(VersionVariants)
      [] site = 3 -> Len(SeparatorVariants)
      [] site \in {4, 5, 6} -> Len(SegmentVariants(<<>>, <<>>, <<>>))
      [] site = 7 -> Len(ExtraVariants)
      [] site = 8 -> Len(TailVariants)

\* The string an edit builds: edit[site] = 0 keeps the site, v > 0 puts its
\* v-th variant.
Edited(edit) ==
    LET pick(variants, site, kept) ==
            IF edit[site] = 0 THEN kept ELSE variants[edit[site]]
        first == pick(SegmentVariants(AV, <<"N">>, <<"L">>), 4, <<Seg(AV, <<"N">>)>>)
        mid == pick(SegmentVariants(S, <<"U">>, <<"C">>), 5, <<Seg(S, <<"U">>)>>)
        last == pick(SegmentVariants(A, <<"H">>, <<"L">>), 6, <<Seg(A, <<"H">>)>>)
        segs == first \o <<Seg(AC, <<"L">>), Seg(PR, <<"N">>), Seg(UI, <<"N">>)>> \o mid
                  \o <<Seg(C, <<"H">>), Seg(I, <<"H">>)>> \o last
                  \o pick(ExtraVariants, 7, <<>>)
    IN  pick(PrefixVariants, 1, CvssPrefix) \o pick(VersionVariants, 2, V31)
          \o pick(SeparatorVariants, 3, <<"/">>) \o Join(segs) \o pick(TailVariants, 8, <<>>)

\* The edits of the sites in D, each with one of its variants.
EditsOf(D) ==
    {[site \in Sites |-> IF site \in D THEN g[site] ELSE 0] :
        g \in {h \in [D -> 1..Len(SegmentVariants(<<>>, <<>>, <<>>))] :
                  \A site \in D : h[site] <= NumVariants(site)}}

EditedInputs ==
    {Edited(edit) :
        edit \in UNION {EditsOf(D) : D \in {D \in SUBSET Sites : Cardinality(D) <= MaxEdits}}}

(***************************************************************************)
(* Reordered inputs: two vectors with Temporal and Environmental metrics,  *)
(* their segments permuted by every permutation that moves at most         *)
(* MaxMoved of them, by every rotation and by the reversal.                *)
(***************************************************************************)
MaxMoved == 2

\* The permutations of 1..n that leave all but at most k positions in place.
PermutationsMoving(n, k) ==
    UNION {{[i \in 1..n |-> IF i \in D THEN g[i] ELSE i] :
                g \in {h \in [D -> D] : \A a, b \in D : h[a] = h[b] => a = b}} :
            D \in {D \in SUBSET (1..n) : Cardinality(D) <= k}}

\* The rotations of 1..n and its reversal.
RotationsAndReversal(n) ==
    {[i \in 1..n |-> ((i - 1 + r) % n) + 1] : r \in 0..(n - 1)}
        \cup {[i \in 1..n |-> n + 1 - i]}

\* The segments in the order p.
Permute(segs, p) == [i \in 1..Len(segs) |-> segs[p[i]]]

\* A 3.1 vector with MS and E (no Requirement metric), and a 3.0 vector with
\* the three Requirement metrics.
OrderVectors ==
    {[version |-> V31,
      segs |-> <<Seg(AV, <<"N">>), Seg(AC, <<"L">>), Seg(PR, <<"L">>), Seg(UI, <<"N">>),
                 Seg(S, <<"U">>), Seg(C, <<"H">>), Seg(I, <<"L">>), Seg(A, <<"N">>),
                 Seg(MS, <<"C">>), Seg(E, <<"U">>)>>],
     [version |-> V30,
      segs |-> <<Seg(AV, <<"A">>), Seg(AC, <<"H">>), Seg(PR, <<"H">>), Seg(UI, <<"R">>),
                 Seg(S, <<"C">>), Seg(C, <<"L">>), Seg(I, <<"H">>), Seg(A, <<"H">>),
                 Seg(CR, <<"H">>), Seg(IR, <<"L">>), Seg(AR, <<"M">>)>>]}

ReorderedInputs ==
    UNION {{Vector(v.version, Permute(v.segs, p)) :
                p \in PermutationsMoving(Len(v.segs), MaxMoved)
                        \cup RotationsAndReversal(Len(v.segs))} : v \in OrderVectors}

(***************************************************************************)
(* Arguments of roundUp: the numbers of [0, 10] with six decimals that lie *)
(* within Near hundred-thousandths of a tenth or of the middle between two *)
(* tenths, their sixth decimal 0, 4 or 6 (on either side of the half at    *)
(* which Math.round turns).                                                *)
(***************************************************************************)
Near == 2

\* The decimal n / 1000000.
Millionths(n) == DCanon(FALSE, BNat(n * 100), 2)

\* Hundred-thousandths above a tenth: near 0, near 5000, near 10000.
RoundOffsets == (0..Near) \cup ((5000 - Near)..(5000 + Near)) \cup ((10000 - Near)..9999)

RoundInputs ==
    {Millionths(n) :
        n \in {m \in {(tenths * 10000 + offset) * 10 + sixth :
                        tenths \in 0..100, offset \in RoundOffsets, sixth \in {0, 4, 6}} :
                  m <= 10000000}}

(***************************************************************************)
(* The state machine: one call of an entry point on the input string.      *)
(***************************************************************************)
InitWith(inputs) ==
    /\ cvssStr \in inputs
    /\ called = "none"
    /\ thrown = "none"
    /\ validationResult = NoValidation
    /\ scoreResult = NoScore
    /\ roundUpInput = Zero
    /\ roundUpResult = Zero

Validate ==
    /\ called = "none"
    /\ called' = "validate"
    /\ \E r \in {validate(cvssStr)} : thrown' = r.error /\ validationResult' = r.result
    /\ UNCHANGED <<cvssStr, scoreResult, roundUpInput, roundUpResult>>

CalculateBaseResult ==
    /\ called = "none"
    /\ called' = "calculateBaseResult"
    /\ \E r \in {calculateBaseResult(cvssStr)} : thrown' = r.error /\ scoreResult' = r.result
    /\ UNCHANGED <<cvssStr, validationResult, roundUpInput, roundUpResult>>

CalculateTemporalResult ==
    /\ called = "none"
    /\ called' = "calculateTemporalResult"
    /\ \E r \in {calculateTemporalResult(cvssStr)} : thrown' = r.error /\ scoreResult' = r.result
    /\ UNCHANGED <<cvssStr, validationResult, roundUpInput, roundUpResult>>

CalculateEnvironmentalResult ==
    /\ called = "none"
    /\ called' = "calculateEnvironmentalResult"
    /\ \E r \in {calculateEnvironmentalResult(cvssStr)} : thrown' = r.error /\ scoreResult' = r.result
    /\ UNCHANGED <<cvssStr, validationResult, roundUpInput, roundUpResult>>

\* roundUp(roundUpInput), as the score functions call it.
RoundUp ==
    /\ called = "none"
    /\ called' = "roundUp"
    /\ roundUpResult' = roundUp(roundUpInput)
    /\ UNCHANGED <<cvssStr, thrown, validationResult, scoreResult, roundUpInput>>

Next ==
    \/ Validate
    \/ CalculateBaseResult
    \/ CalculateTemporalResult
    \/ CalculateEnvironmentalResult
    \/ RoundUp

Init == InitWith(EditedInputs)

\* Malformed and well-formed strings: validation and the entry points.
Spec == Init /\ [][Next]_vars

InitScore == InitWith(ScoreInputs)

\* Well-formed vectors: the scoring entry points.
SpecScore == InitScore /\ [][Next]_vars

InitRound ==
    /\ cvssStr = <<>>
    /\ called = "none"
    /\ thrown = "none"
    /\ validationResult = NoValidation
    /\ scoreResult = NoScore
    /\ roundUpInput \in RoundInputs
    /\ roundUpResult = Zero

\* roundUp on the numbers of RoundInputs.
SpecRound == InitRound /\ [][Next]_vars

InitOrder == InitWith(ReorderedInputs)

\* Well-formed vectors with their segments in another order.
SpecOrder == InitOrder /\ [][Next]_vars

(***************************************************************************)
(* Properties of validate                                                  *)
(***************************************************************************)
\* The vector body of the string, "" when there is none.
BodyOf(s) == LET v == parseVector(s) IN IF Truthy(v) THEN v.val ELSE <<>>

\* The segments of the body.
SegmentsOf(s) == Split(BodyOf(s), "/")

\* The key:value pairs of the segments that have a key and a value.
PairsIn(segs) ==
    {[key |-> SegmentKeyValue(segs[i]).key.val,
      value |-> SegmentKeyValue(segs[i]).value.val] :
        i \in {j \in 1..Len(segs) : ~InvalidSegment(segs[j])}}

PairsOf(s) == PairsIn(SegmentsOf(s))

\* Some segment has no key or no value.
SomeInvalidSegment(segs) == \E i \in 1..Len(segs) : InvalidSegment(segs[i])

\* Two segments have the same key.
SomeRepeatedKey(segs) ==
    \E i, j \in 1..Len(segs) :
        i < j /\ Split(segs[i], ":")[1] = Split(segs[j], ":")[1]

\* The checks of validate violated by a string with the segments segs and
\* the pairs pairs, each check taken on its own, numbered in the order of the
\* contract: 1 prefix, 2 version, 3 vector body, 4 parser, 5 mandatory
\* metrics, 6 unknown metrics, 7 metric values.
ChecksViolatedIn(s, segs, pairs) ==
    {k \in 1..7 :
        CASE k = 1 -> ~StartsWith(s, CvssPrefix)
          [] k = 2 -> ~parseVersion(s).def \/ parseVersion(s).val \notin {V30, V31}
          [] k = 3 -> BodyOf(s) = <<>> \/ Includes(BodyOf(s), <<"/", "/">>)
          [] k = 4 -> SomeInvalidSegment(segs) \/ SomeRepeatedKey(segs)
          [] k = 5 -> \E i \in 1..Len(baseMetrics) :
                         \A p \in pairs : p.key # baseMetrics[i]
          [] k = 6 -> \E p \in pairs : p.key \notin Range(allKnownMetrics)
          [] k = 7 -> \E p \in pairs :
                         /\ p.key \in Range(allKnownMetrics)
                         /\ p.value \notin allKnownMetricsValues[p.key]}

ChecksViolated(s) ==
    UNION {ChecksViolatedIn(s, segs, PairsIn(segs)) : segs \in {SegmentsOf(s)}}

\* The error of a check: the version check reports a version it cannot read
\* with the invalid-string error and any other version as unsupported; the
\* parser reports a segment without key or value before a repeated key.
ErrorOfCheck(k, s) ==
    CASE k = 1 -> "CVSS vector must start with CVSS:"
      [] k = 2 -> IF parseVersion(s).def THEN "Unsupported CVSS version"
                  ELSE "Invalid CVSS string"
      [] k = 3 -> "Invalid CVSS string"
      [] k = 4 -> IF SomeInvalidSegment(SegmentsOf(s)) THEN "Invalid metric"
                  ELSE "Duplicated metric"
      [] k = 5 -> "Missing mandatory CVSS metric"
      [] k = 6 -> "Unknown CVSS metric"
      [] k = 7 -> "Invalid value for CVSS metric"

\* The least of a non-empty set of numbers.
Earliest(ks) == CHOOSE k \in ks : \A j \in ks : k <= j

\* C1: validate fails fast in the order prefix, version, vector body, parser,
\* mandatory metrics, unknown metrics, metric values: on a string that
\* violates one or more of these checks (two or more included) it throws the
\* error of the earliest violated check, and that one error only.
C1_FailFastOrder ==
    called = "validate" =>
        \A violated \in {ChecksViolated(cvssStr)} :
            violated # {} => thrown = ErrorOfCheck(Earliest(violated), cvssStr)

\* C1, its case: a string without a Base metric and with an unknown key (it
\* passes the earlier checks) was rejected for the missing metric.
C1_Witness ==
    /\ called = "validate"
    /\ thrown = "Missing mandatory CVSS metric"
    /\ \E violated \in {ChecksViolated(cvssStr)} :
          {5, 6} \subseteq violated /\ Earliest(violated) = 5

\* C2: whenever validate returns, versionStr is "3.0" or "3.1", the 8 Base
\* metrics are keys of metricsMap, every key is one of the 22 known metric
\* codes, and every value is a legal value of its metric.
C2_ValidationResultLegal ==
    (called = "validate" /\ thrown = "none") =>
        LET m == validationResult.metricsMap
        IN  /\ validationResult.versionStr \in {Defined(V30), Defined(V31)}
            /\ \A i \in 1..Len(baseMetrics) : MapHas(m, baseMetrics[i])
            /\ Len(allKnownMetrics) = 22
            /\ \A i \in 1..Len(m) :
                  /\ m[i].key \in Range(allKnownMetrics)
                  /\ m[i].value \in allKnownMetricsValues[m[i].key]
                  /\ m[i].key \in Range(baseMetrics) => m[i].value # <<"X">>

\* C2, its case: validate returned a map with Temporal metrics next to the 8
\* Base metrics.
C2_Witness ==
    /\ called = "validate"
    /\ thrown = "none"
    /\ validationResult.isTemporal
    /\ Len(validationResult.metricsMap) > Len(baseMetrics)

\* The string passes the prefix, version and vector-body checks.
PassesEarlyChecks(s) ==
    /\ StartsWith(s, CvssPrefix)
    /\ validateVersion(parseVersion(s)) = "none"
    /\ validateVector(parseVector(s)) = "none"

\* The entries of the segments, in their order.
EntriesOf(segs) ==
    [i \in 1..Len(segs) |->
        [key |-> SegmentKeyValue(segs[i]).key.val,
         value |-> SegmentKeyValue(segs[i]).value.val]]

\* C5: the parser rejects duplicates instead of overwriting: for a string that
\* passes the prefix, version and vector-body checks and whose segments all
\* have a key and a value, a key that occurs in two segments (with equal or
\* different values, known or not) makes validate throw the duplicated-metric
\* error; and when validate returns, the map holds exactly the segments'
\* entries in their order, so no later occurrence has replaced a value.
C5_DuplicateRejected ==
    (called = "validate" /\ PassesEarlyChecks(cvssStr)) =>
        \A segs \in {SegmentsOf(cvssStr)} :
            ~SomeInvalidSegment(segs) =>
                /\ SomeRepeatedKey(segs) => thrown = "Duplicated metric"
                /\ thrown = "none" => validationResult.metricsMap = EntriesOf(segs)

\* C5, its case: a known key given twice with different values, in a string
\* that passes the earlier checks, was rejected as duplicated.
C5_Witness ==
    /\ called = "validate"
    /\ PassesEarlyChecks(cvssStr)
    /\ thrown = "Duplicated metric"
    /\ \E segs \in {SegmentsOf(cvssStr)} :
          /\ ~SomeInvalidSegment(segs)
          /\ \E i, j \in 1..Len(segs) :
                /\ i < j
                /\ SegmentKeyValue(segs[i]).key = SegmentKeyValue(segs[j]).key
                /\ SegmentKeyValue(segs[i]).key.val \in Range(allKnownMetrics)
                /\ SegmentKeyValue(segs[i]).value # SegmentKeyValue(segs[j]).value

\* A segment that is not exactly a non-empty key, one colon and a non-empty
\* value.
NotKeyColonValue(segment) ==
    LET parts == Split(segment, ":")
    IN  Len(parts) # 2 \/ parts[1] = <<>> \/ parts[2] = <<>>

\* C6: every segment of the vector body must be exactly key:value, a segment
\* of any other shape (no colon, empty key, empty value, more than one colon
\* such as AV:N:X) makes the parser throw the invalid-metric error: a string
\* that passes the prefix, version and vector-body checks and has such a
\* segment is rejected with that error.
C6_SegmentExactlyKeyValue ==
    (called = "validate" /\ PassesEarlyChecks(cvssStr)) =>
        \A segs \in {SegmentsOf(cvssStr)} :
            (\E i \in 1..Len(segs) : NotKeyColonValue(segs[i])) =>
                thrown = "Invalid metric"

\* The version token validate reads is absent or unreadable (no digit after
\* the prefix, or the string does not match), or is not 3.0 or 3.1.
VersionUnreadable(s) == ~parseVersion(s).def

VersionOther(s) == parseVersion(s).def /\ parseVersion(s).val \notin {V30, V31}

\* C7, as stated: every string with the prefix whose version token is absent,
\* unreadable or different from 3.0 and 3.1 fails with the unsupported-version
\* error, whatever the rest of the string holds.
C7_AsStated ==
    (called = "validate" /\ StartsWith(cvssStr, CvssPrefix)
        /\ (VersionUnreadable(cvssStr) \/ VersionOther(cvssStr))) =>
        thrown = "Unsupported CVSS version"

\* C7, amended: every string with the prefix whose version token is read and
\* is different from 3.0 and 3.1 fails with the unsupported-version error,
\* whatever the rest of the string holds; a string with the prefix whose
\* version token is absent or unreadable fails too, with the invalid-string
\* error that an empty vector body or "//" also gets.
C7_VersionErrors ==
    (called = "validate" /\ StartsWith(cvssStr, CvssPrefix)) =>
        /\ VersionOther(cvssStr) => thrown = "Unsupported CVSS version"
        /\ VersionUnreadable(cvssStr) =>
              thrown = "Invalid CVSS string" /\ thrown = validateVector(Undefined)

\* C7, its case: a string with version 2.0 that also violates a later check
\* was rejected as an unsupported version.
C7_Witness ==
    /\ called = "validate"
    /\ parseVersion(cvssStr) = Defined(<<"2", ".", "0">>)
    /\ thrown = "Unsupported CVSS version"
    /\ \E violated \in {ChecksViolated(cvssStr)} : violated \cap {3, 4, 5, 6, 7} # {}

(***************************************************************************)
(* Properties of the scores                                                *)
(***************************************************************************)
\* validate returns on the string.
Accepted(s) == validate(s).error = "none"

\* 0 <= x <= 10
InScoreRange(x) == DLeq(Zero, x) /\ DLeq(x, Ten)

\* x is a multiple of 0.1: 10 * x is an integer.
IsTenth(x) == DMul(x, Ten).scale = 0

ScoreCalls == {"calculateBaseResult", "calculateTemporalResult"}

\* C3, as stated: for every vector validate accepts, the Environmental score
\* is returned, lies in [0, 10] and is a multiple of 0.1, vectors with only
\* the 8 Base metrics and vectors without some of CR, IR, AR included.
C3_AsStated ==
    (called = "calculateEnvironmentalResult" /\ Accepted(cvssStr)) =>
        /\ thrown = "none"
        /\ InScoreRange(scoreResult.score)
        /\ IsTenth(scoreResult.score)

\* C4: for every vector validate accepts, the Base score and the Temporal
\* score are returned, lie in [0, 10] and are multiples of 0.1.
C4_BaseTemporalBounds ==
    (called \in ScoreCalls /\ Accepted(cvssStr)) =>
        /\ thrown = "none"
        /\ InScoreRange(scoreResult.score)
        /\ IsTenth(scoreResult.score)

\* C4, its case: a Temporal score strictly between 0 and 10 was returned for
\* a vector with E:U.
C4_Witness ==
    /\ called = "calculateTemporalResult"
    /\ thrown = "none"
    /\ MapGetOrUndefined(scoreResult.metricsMap, E) = Defined(<<"U">>)
    /\ ~DLeq(scoreResult.score, Zero)
    /\ ~DLeq(Ten, scoreResult.score)

\* C8: for every vector validate accepts, whatever Temporal metrics it gives
\* or omits, the Temporal score is returned and is at most the Base score.
C8_TemporalAtMostBase ==
    (called = "calculateTemporalResult" /\ Accepted(cvssStr)) =>
        \A base \in {calculateBaseScore(cvssStr)} :
            /\ thrown = "none"
            /\ base.error = "none"
            /\ DLeq(scoreResult.score, base.num)

\* C8, its case: a Temporal score strictly below the Base score was returned.
C8_Witness ==
    /\ called = "calculateTemporalResult"
    /\ thrown = "none"
    /\ ~DLeq(calculateBaseScore(cvssStr).num, scoreResult.score)

\* score, impact and exploitability of the result are all 0.
AllZero(result) ==
    result.score = Zero /\ result.impact = Zero /\ result.exploitability = Zero

\* C, I and A are all N in the map.
NoImpactMetrics(metricsMap) ==
    \A metric \in {C, I, A} : MapGetOrUndefined(metricsMap, metric) = Defined(<<"N">>)

\* C9: when calculateBaseResult computes an Impact <= 0, the score, the impact
\* and the exploitability it returns are 0, whatever AV, AC, PR, UI and S are;
\* the same holds in calculateEnvironmentalResult for a Modified Impact <= 0;
\* and every accepted vector with C:N, I:N, A:N has Base score 0 and Temporal
\* score 0.
C9_ZeroImpactFloor ==
    /\ (called = "calculateBaseResult" /\ thrown = "none") =>
          \A m \in {scoreResult.metricsMap} :
              DLeq(calculateImpact(m, calculateIss(m).num), Zero) => AllZero(scoreResult)
    /\ (called = "calculateEnvironmentalResult" /\ thrown = "none") =>
          \A m \in {scoreResult.metricsMap} :
              DLeq(calculateModifiedImpact(m, calculateMiss(m).num,
                                           parseVersion(cvssStr).val), Zero)
                  => AllZero(scoreResult)
    /\ (called \in ScoreCalls /\ Accepted(cvssStr)) =>
          \A given \in {validate(cvssStr).result.metricsMap} :
              NoImpactMetrics(given) => thrown = "none" /\ scoreResult.score = Zero

\* C9, its case: calculateBaseResult returned 0 three times for a vector with
\* S:C and a negative Impact.
C9_Witness ==
    /\ called = "calculateBaseResult"
    /\ thrown = "none"
    /\ MapGetOrUndefined(scoreResult.metricsMap, S) = Defined(<<"C">>)
    /\ calculateImpact(scoreResult.metricsMap, calculateIss(scoreResult.metricsMap).num).neg
    /\ AllZero(scoreResult)

\* Every Temporal metric is absent from the map or X.
TemporalAbsentOrX(metricsMap) ==
    \A i \in 1..Len(temporalMetrics) :
        MapGetOrUndefined(metricsMap, temporalMetrics[i]) \in {Undefined, Defined(<<"X">>)}

\* C10: for every accepted vector, the map calculateTemporalResult returns
\* holds the three Temporal metrics, the ones the vector gives with their
\* values and the others as X, and every other entry of the vector unchanged;
\* and when each of E, RL, RC is absent or X, the Temporal score equals the
\* Base score.
C10_TemporalDefaults ==
    (called = "calculateTemporalResult" /\ Accepted(cvssStr)) =>
        \A given \in {validate(cvssStr).result.metricsMap} :
            /\ thrown = "none"
            /\ \A i \in 1..Len(temporalMetrics) :
                  MapGetOrUndefined(scoreResult.metricsMap, temporalMetrics[i])
                    = IF MapHas(given, temporalMetrics[i])
                      THEN Defined(MapGet(given, temporalMetrics[i]))
                      ELSE Defined(<<"X">>)
            /\ \A i \in 1..Len(given) :
                  MapGetOrUndefined(scoreResult.metricsMap, given[i].key)
                    = Defined(given[i].value)
            /\ TemporalAbsentOrX(given) =>
                  scoreResult.score = calculateBaseScore(cvssStr).num

\* C10, its case: for a vector with RL:X and without E and RC, a positive
\* Temporal score was returned with E and RC set to X.
C10_Witness ==
    /\ called = "calculateTemporalResult"
    /\ thrown = "none"
    /\ \E given \in {validate(cvssStr).result.metricsMap} :
          /\ ~MapHas(given, E)
          /\ ~MapHas(given, RC)
          /\ MapGetOrUndefined(given, RL) = Defined(<<"X">>)
    /\ MapGetOrUndefined(scoreResult.metricsMap, E) = Defined(<<"X">>)
    /\ MapGetOrUndefined(scoreResult.metricsMap, RC) = Defined(<<"X">>)
    /\ ~DLeq(scoreResult.score, Zero)

(***************************************************************************)
(* Properties of the order of the segments                                 *)
(***************************************************************************)
\* The place of the key of a segment among the 22 metric codes, 0 for an
\* unknown key.
KeyRank(segment) ==
    LET key == Split(segment, ":")[1]
    IN  IF key \in Range(allKnownMetrics)
        THEN CHOOSE k \in 1..Len(allKnownMetrics) : allKnownMetrics[k] = key
        ELSE 0

\* The segments (with distinct known keys) in the order Base, Temporal,
\* Environmental of the metric codes.
SortedSegments(segs) ==
    [i \in 1..Len(segs) |->
        segs[CHOOSE j \in 1..Len(segs) :
                Cardinality({k \in 1..Len(segs) : KeyRank(segs[k]) < KeyRank(segs[j])})
                    = i - 1]]

\* The string with the same version and the same segments, in the order of
\* the metric codes: every reordering of a vector has the same one.
InCodeOrder(s) == Vector(parseVersion(s).val, SortedSegments(SegmentsOf(s)))

\* The key/value pairs of a map.
EntrySet(metricsMap) == {metricsMap[i] : i \in 1..Len(metricsMap)}

\* Two calls of validate threw the same error or returned the same pairs,
\* flags and version.
SameValidation(thrownA, a, b) ==
    /\ thrownA = b.error
    /\ EntrySet(a.metricsMap) = EntrySet(b.result.metricsMap)
    /\ a.isTemporal = b.result.isTemporal
    /\ a.isEnvironmental = b.result.isEnvironmental
    /\ a.versionStr = b.result.versionStr

\* Two calls of a score function threw the same error or returned the same
\* score and sub-scores.
SameScore(thrownA, a, b) ==
    /\ thrownA = b.error
    /\ a.score = b.result.score
    /\ a.impact = b.result.impact
    /\ a.exploitability = b.result.exploitability

\* C11: the order of the segments is irrelevant: a vector and the vector with
\* the same segments in the order of the metric codes are accepted together,
\* validate gives both the same key/value pairs, the same isTemporal,
\* isEnvironmental and versionStr, and the Base, Temporal and Environmental
\* calls give both the same score and sub-scores or the same failure.  Every
\* two reorderings of a vector share that ordered vector, so they are accepted
\* together and have the same outcomes.
C11_OrderIrrelevant ==
    \A ordered \in {InCodeOrder(cvssStr)} :
        /\ called = "validate" =>
                SameValidation(thrown, validationResult, validate(ordered))
        /\ called = "calculateBaseResult" =>
                SameScore(thrown, scoreResult, calculateBaseResult(ordered))
        /\ called = "calculateTemporalResult" =>
                SameScore(thrown, scoreResult, calculateTemporalResult(ordered))
        /\ called = "calculateEnvironmentalResult" =>
                SameScore(thrown, scoreResult, calculateEnvironmentalResult(ordered))

\* C11, its case: the Environmental score was returned for a vector that
\* gives a Requirement metric before a Base metric.
C11_Witness ==
    /\ called = "calculateEnvironmentalResult"
    /\ thrown = "none"
    /\ cvssStr # InCodeOrder(cvssStr)
    /\ \E i, j \in 1..Len(SegmentsOf(cvssStr)) :
          /\ i < j
          /\ Split(SegmentsOf(cvssStr)[i], ":")[1] \in {CR, IR, AR}
          /\ Split(SegmentsOf(cvssStr)[j], ":")[1] \in Range(baseMetrics)
    /\ ~DLeq(scoreResult.score, Zero)

(***************************************************************************)
(* Properties of the version                                               *)
(***************************************************************************)
\* The string with version 3.0 in place of 3.1, or 3.1 in place of 3.0.
OtherVersion(s) ==
    CvssPrefix \o (IF SubSeq(s, 6, 8) = V30 THEN V31 ELSE V30) \o SubSeq(s, 9, Len(s))

\* The call of the state, on another string.
SameCall(s) ==
    IF called = "calculateBaseResult" THEN calculateBaseResult(s)
    ELSE calculateTemporalResult(s)

\* The Modified Impact of the contract: 6.42 * MISS when Modified Scope is
\* Unchanged; when Changed, 7.52 * (MISS - 0.029) - 3.25 * (MISS - 0.02)^15
\* for 3.0 and 7.52 * (MISS - 0.029) - 3.25 * (MISS * 0.9731 - 0.02)^13 for
\* 3.1.
ModifiedImpactOfContract(modifiedScope, miss, version) ==
    IF modifiedScope = <<"U">> THEN DMul(Dec4(64200), miss)
    ELSE IF version = V30
    THEN DSub(DMul(Dec4(75200), DSub(miss, Dec4(290))),
              DMul(Dec4(32500), DPow(DSub(miss, Dec4(200)), 15)))
    ELSE DSub(DMul(Dec4(75200), DSub(miss, Dec4(290))),
              DMul(Dec4(32500), DPow(DSub(DMul(miss, Dec4(9731)), Dec4(200)), 13)))

\* The impact a result reports for an impact: 0 when it is not positive, else
\* rounded up.
ReportedImpact(impact) == IF DLeq(impact, Zero) THEN Zero ELSE roundUp(impact)

\* C12: the version token affects only the Modified Impact equation: for a
\* valid vector, calculateBaseResult and calculateTemporalResult give the same
\* score, impact and exploitability when 3.0 is replaced by 3.1 or 3.1 by 3.0;
\* and calculateModifiedImpact is 6.42 * MISS with Modified Scope Unchanged
\* for both versions, and with Modified Scope Changed uses coefficient 1 and
\* exponent 15 for 3.0, coefficient 0.9731 and exponent 13 for 3.1 (seen in
\* the value of the function and in the impact the Environmental result
\* reports).
C12_VersionOnlyModifiedImpact ==
    /\ (called \in ScoreCalls /\ Accepted(cvssStr)) =>
            SameScore(thrown, scoreResult, SameCall(OtherVersion(cvssStr)))
    /\ (called = "calculateEnvironmentalResult" /\ thrown = "none") =>
            \A miss \in {calculateMiss(scoreResult.metricsMap).num} :
                \A impact \in {ModifiedImpactOfContract(
                                    MapGet(scoreResult.metricsMap, MS), miss,
                                    SubSeq(cvssStr, 6, 8))} :
                    /\ calculateModifiedImpact(scoreResult.metricsMap, miss,
                                               SubSeq(cvssStr, 6, 8)) = impact
                    /\ scoreResult.impact = ReportedImpact(impact)

\* C12, its case: the Environmental result of a 3.0 vector with Modified
\* Scope Changed reports an impact that the 3.1 equation would not give.
C12_Witness ==
    /\ called = "calculateEnvironmentalResult"
    /\ thrown = "none"
    /\ SubSeq(cvssStr, 6, 8) = V30
    /\ MapGet(scoreResult.metricsMap, MS) = <<"C">>
    /\ scoreResult.impact #
          ReportedImpact(ModifiedImpactOfContract(
                            <<"C">>, calculateMiss(scoreResult.metricsMap).num, V31))

(***************************************************************************)
(* Properties of roundUp                                                   *)
(***************************************************************************)
\* C13: roundUp is idempotent on its output: for x in [0, 10],
\* roundUp(roundUp(x)) = roundUp(x), and an x that is already a multiple of
\* 0.1 is returned as it is.
C13_RoundUpIdempotent ==
    called = "roundUp" =>
        /\ roundUp(roundUpResult) = roundUpResult
        /\ IsTenth(roundUpInput) => roundUpResult = roundUpInput

\* C13, its case: roundUp has moved a number of [0, 10] that is no multiple
\* of 0.1 to another number.
C13_Witness ==
    /\ called = "roundUp"
    /\ InScoreRange(roundUpInput)
    /\ ~IsTenth(roundUpInput)
    /\ roundUpResult # roundUpInput
    /\ roundUpResult # Zero

\* x < y
DLess(x, y) == ~DLeq(y, x)

\* C18: for x in [0, 10], with i = round(x * 100000), roundUp returns
\* i / 100000 when i is divisible by 10000 and (floor(i / 10000) + 1) / 10
\* otherwise; the result is a multiple of 0.1, is at least i / 100000, and
\* exceeds i / 100000 by strictly less than 0.1, so it is the smallest
\* multiple of 0.1 that is at least i / 100000 (a ceiling, not a rounding
\* to the nearest tenth).
C18_RoundUpCeiling ==
    called = "roundUp" =>
        \A i \in {MathRound(DMul(roundUpInput, DNat(100000)))} :
            /\ i % 10000 = 0 => roundUpResult = DDiv100000(i)
            /\ i % 10000 # 0 => roundUpResult = DDiv10((i \div 10000) + 1)
            /\ IsTenth(roundUpResult)
            /\ DLeq(DDiv100000(i), roundUpResult)
            /\ DLess(DSub(roundUpResult, DDiv100000(i)), Dec4(1000))

\* C18, its case: roundUp returned the tenth above for a number that the
\* tenth below is nearer to (more than 0.05 under the result).
C18_Witness ==
    /\ called = "roundUp"
    /\ InScoreRange(roundUpInput)
    /\ DLess(Dec4(500), DSub(roundUpResult, roundUpInput))
    /\ IsTenth(roundUpResult)

(***************************************************************************)
(* Reference vectors                                                       *)
(***************************************************************************)
\* CVSS:3.1/AV:N/AC:L/PR:N/UI:N/S:U/C:H/I:H/A:H
ReferenceUnchanged ==
    Vector(V31, <<Seg(AV, <<"N">>), Seg(AC, <<"L">>), Seg(PR, <<"N">>), Seg(UI, <<"N">>),
                  Seg(S, <<"U">>), Seg(C, <<"H">>), Seg(I, <<"H">>), Seg(A, <<"H">>)>>)

\* CVSS:3.1/AV:N/AC:L/PR:N/UI:N/S:C/C:H/I:H/A:H
ReferenceChanged ==
    Vector(V31, <<Seg(AV, <<"N">>), Seg(AC, <<"L">>), Seg(PR, <<"N">>), Seg(UI, <<"N">>),
                  Seg(S, <<"C">>), Seg(C, <<"H">>), Seg(I, <<"H">>), Seg(A, <<"H">>)>>)

\* CVSS:3.0/AV:A/AC:H/PR:H/UI:R/S:U/C:N/I:N/A:L
ReferenceLow ==
    Vector(V30, <<Seg(AV, <<"A">>), Seg(AC, <<"H">>), Seg(PR, <<"H">>), Seg(UI, <<"R">>),
                  Seg(S, <<"U">>), Seg(C, <<"N">>), Seg(I, <<"N">>), Seg(A, <<"L">>)>>)

\* calculateBaseResult returned this score (in tenths) for the string.
BaseScoreIs(s, tenths) ==
    (called = "calculateBaseResult" /\ cvssStr = s) =>
        thrown = "none" /\ scoreResult.score = DDiv10(tenths)

\* C14, as stated: the Base scores of the three reference vectors are 9.8,
\* 10.0 and 2.5.
C14_AsStated ==
    /\ BaseScoreIs(ReferenceUnchanged, 98)
    /\ BaseScoreIs(ReferenceChanged, 100)
    /\ BaseScoreIs(ReferenceLow, 25)

\* C14, amended: the Base scores of the three reference vectors are 9.8, 10.0
\* and 1.8, the values of the CVSS Base equations (for the third vector:
\* impact 6.42 * 0.22 = 1.4124, exploitability
\* 8.22 * 0.62 * 0.44 * 0.27 * 0.62 = 0.3754, sum 1.7878, rounded up 1.8).
C14_ReferenceScores ==
    /\ BaseScoreIs(ReferenceUnchanged, 98)
    /\ BaseScoreIs(ReferenceChanged, 100)
    /\ BaseScoreIs(ReferenceLow, 18)

\* C14, its case: calculateBaseResult returned for the third reference vector,
\* with impact 1.5 and exploitability 0.4.
C14_Witness ==
    /\ called = "calculateBaseResult"
    /\ cvssStr = ReferenceLow
    /\ thrown = "none"
    /\ scoreResult.impact = DDiv10(15)
    /\ scoreResult.exploitability = DDiv10(4)

(***************************************************************************)
(* Properties of the Environmental defaults and of the weight lookup       *)
(***************************************************************************)
\* The map validate returns for the string.
ValidatedMap(s) == validate(s).result.metricsMap

\* populateEnvironmentalMetricDefaults on the validated map, as
\* calculateEnvironmentalResult calls it (after the Temporal defaults).
PopulatedOf(s) ==
    populateEnvironmentalMetricDefaults(populateTemporalMetricDefaults(ValidatedMap(s)))

\* C15, as stated: the missing-modified-metric error is unreachable: for
\* every map validate produces, with or without the Temporal defaults,
\* populateEnvironmentalMetricDefaults does not raise it, whatever
\* Environmental metrics are absent, X or given, the Requirement metrics CR,
\* IR, AR included; so the Environmental call does not fail with it.
C15_AsStated ==
    (called = "calculateEnvironmentalResult" /\ Accepted(cvssStr)) =>
        /\ populateEnvironmentalMetricDefaults(ValidatedMap(cvssStr)).error
              # "Missing modified metric"
        /\ PopulatedOf(cvssStr).error # "Missing modified metric"
        /\ thrown # "Missing modified metric"

\* The metric is absent from the map or X in it.
AbsentOrX(metricsMap, metric) ==
    MapGetOrUndefined(metricsMap, metric) \in {Undefined, Defined(<<"X">>)}

\* The Environmental defaults of the contract, from the map before to the
\* map after.
DefaultsOfContract(before, after) ==
    /\ \A i \in 1..Len(environmentalMetrics) : MapHas(after, environmentalMetrics[i])
    /\ \A i \in 1..Len(environmentalMetrics) :
          ~AbsentOrX(before, environmentalMetrics[i]) =>
              MapGet(after, environmentalMetrics[i]) = MapGet(before, environmentalMetrics[i])
    /\ \A metric \in {MAV, MAC, MPR, MUI, MS, MC, MI, MA} :
          AbsentOrX(before, metric) =>
              /\ MapGet(after, metric) = MapGet(after, modifiedMetricsMap(metric).val)
              /\ MapGet(after, metric) # <<"X">>
    /\ \A metric \in {CR, IR, AR} :
          AbsentOrX(before, metric) => MapGet(after, metric) = <<"X">>
    /\ \A i \in 1..Len(before) :
          before[i].key \in Range(baseMetrics) \cup Range(temporalMetrics) =>
              MapGet(after, before[i].key) = before[i].value

\* C16, as stated: Environmental default population on a validated map
\* completes, and afterwards all 11 Environmental metrics are keys, every
\* Environmental metric given with a value other than X keeps it, every
\* Modified metric that was absent or X holds the value of its Base
\* counterpart (so none is X), every Requirement metric that was absent or X
\* is X, and no Base or Temporal entry is changed.
C16_AsStated ==
    (called = "calculateEnvironmentalResult" /\ Accepted(cvssStr)) =>
        \A before \in {populateTemporalMetricDefaults(ValidatedMap(cvssStr))} :
            \A populated \in {populateEnvironmentalMetricDefaults(before)} :
                /\ populated.error = "none"
                /\ DefaultsOfContract(before, populated.map)

\* The errors of the weight lookup.
LookupErrors ==
    {"Unknown metric value", "Unknown PrivilegesRequired value", "Unknown Scope value",
     "Internal error. Missing metric score", "Missing metric"}

\* C17: for every vector validate accepts, calculateBaseResult and
\* calculateTemporalResult return a result, no weight lookup raising an
\* unknown-value, missing-score or missing-metric error; and when the
\* Environmental defaults have been populated without error,
\* calculateEnvironmentalResult returns too, none of the lookups of
\* calculateMiss, calculateModifiedExploitability and the Temporal weights
\* raising such an error.
C17_LookupNeverFails ==
    /\ (called \in ScoreCalls /\ Accepted(cvssStr)) => thrown = "none"
    /\ (called = "calculateEnvironmentalResult" /\ Accepted(cvssStr)) =>
            /\ thrown \notin LookupErrors
            /\ PopulatedOf(cvssStr).error = "none" => thrown = "none"

\* C17, its case: the Environmental call returned for a vector that gives
\* neither MPR nor MS, with PR:L looked up under the defaulted Modified Scope.
C17_Witness ==
    /\ called = "calculateEnvironmentalResult"
    /\ Accepted(cvssStr)
    /\ thrown = "none"
    /\ ~MapHas(ValidatedMap(cvssStr), MPR)
    /\ ~MapHas(ValidatedMap(cvssStr), MS)
    /\ MapGet(scoreResult.metricsMap, MPR) = <<"L">>
    /\ MapGet(scoreResult.metricsMap, MS) = <<"C">>

\* The weight of Privileges Required of the contract, by value and scope.
PrivilegesRequiredWeight(value, scope) ==
    CASE value = <<"N">> -> Dec4(8500)
      [] value = <<"L">> /\ scope = <<"U">> -> Dec4(6200)
      [] value = <<"L">> /\ scope = <<"C">> -> Dec4(6800)
      [] value = <<"H">> /\ scope = <<"U">> -> Dec4(2700)
      [] value = <<"H">> /\ scope = <<"C">> -> Dec4(5000)

\* The map with the other value for S, and for MS when it has one.
OtherScopes(metricsMap) ==
    [i \in 1..Len(metricsMap) |->
        IF metricsMap[i].key \in {S, MS} /\ metricsMap[i].value \in {<<"U">>, <<"C">>}
        THEN [key |-> metricsMap[i].key,
              value |-> IF metricsMap[i].value = <<"U">> THEN <<"C">> ELSE <<"U">>]
        ELSE metricsMap[i]]

\* The exploitability a result reports for these four weights: 0 when the
\* reported impact is 0, else 8.22 times the weights, rounded up.
ReportedExploitability(result, av, ac, pr, ui) ==
    IF result.impact = Zero THEN Zero
    ELSE roundUp(DMul(DMul(DMul(DMul(Dec4(82200), av), ac), pr), ui))

\* The weight of a metric of the map other than PR and MPR.
WeightIn(metricsMap, metric) == getMetricNumericValue(metric, metricsMap).num

\* C19: in the map of a returned result, the weight of PR is that of
\* (value of PR, value of S) and, after the Environmental defaults, the weight
\* of MPR is that of (value of MPR, value of MS), whatever S is: 0.85 for N;
\* 0.62 for L under scope U and 0.68 under C; 0.27 for H under U and 0.5 under
\* C.  The reported exploitability is computed with these weights.  The weight
\* of every other metric of the map is the same when S and MS are given their
\* other value.
C19_PrivilegesRequiredByScope ==
    (called \in ScoreCalls \cup {"calculateEnvironmentalResult"} /\ thrown = "none") =>
        \A m \in {scoreResult.metricsMap} :
            /\ getMetricNumericValue(PR, m)
                  = Num(PrivilegesRequiredWeight(MapGet(m, PR), MapGet(m, S)))
            /\ called \in ScoreCalls =>
                  scoreResult.exploitability
                    = ReportedExploitability(
                          scoreResult, WeightIn(m, AV), WeightIn(m, AC),
                          PrivilegesRequiredWeight(MapGet(m, PR), MapGet(m, S)),
                          WeightIn(m, UI))
            /\ called = "calculateEnvironmentalResult" =>
                  /\ getMetricNumericValue(MPR, m)
                        = Num(PrivilegesRequiredWeight(MapGet(m, MPR), MapGet(m, MS)))
                  /\ scoreResult.exploitability
                        = ReportedExploitability(
                              scoreResult, WeightIn(m, MAV), WeightIn(m, MAC),
                              PrivilegesRequiredWeight(MapGet(m, MPR), MapGet(m, MS)),
                              WeightIn(m, MUI))
            /\ \A i \in 1..Len(m) :
                  m[i].key \notin {PR, MPR} =>
                      getMetricNumericValue(m[i].key, OtherScopes(m))
                        = getMetricNumericValue(m[i].key, m)

\* C19, its case: the Environmental call returned for a vector that gives
\* MS:C under S:U, and MPR (L, defaulted from PR) has the weight 0.68 of the
\* Modified Scope while PR has the weight 0.62 of S.
C19_Witness ==
    /\ called = "calculateEnvironmentalResult"
    /\ thrown = "none"
    /\ MapHas(ValidatedMap(cvssStr), MS)
    /\ MapGet(scoreResult.metricsMap, MS) = <<"C">>
    /\ MapGet(scoreResult.metricsMap, S) = <<"U">>
    /\ MapGet(scoreResult.metricsMap, MPR) = <<"L">>
    /\ getMetricNumericValue(MPR, scoreResult.metricsMap) = Num(Dec4(6800))
    /\ getMetricNumericValue(PR, scoreResult.metricsMap) = Num(Dec4(6200))

(***************************************************************************)
(* Properties of the shape of the string                                   *)
(***************************************************************************)
\* The string starts with CVSS:3.0 or CVSS:3.1 and the next character is not
\* the separator "/" (or there is none).
VersionNotFollowedBySlash(s) ==
    /\ StartsWith(s, CvssPrefix)
    /\ Len(s) >= 8
    /\ SubSeq(s, 6, 8) \in {V30, V31}
    /\ (Len(s) < 9 \/ s[9] # "/")

\* C20, as stated: validate accepts only strings of the shape
\* CVSS:<version>/<metric>:<value>/...: every string in which the character
\* right after the version token 3.0 or 3.1 is anything other than "/" is
\* rejected with an error.
C20_AsStated ==
    (called = "validate" /\ VersionNotFollowedBySlash(cvssStr)) => thrown # "none"


(***************************************************************************)
(* Properties of the empty segments                                        *)
(***************************************************************************)
\* The text after CVSS:3.0/ or CVSS:3.1/, as written in the string; "" when
\* the string has no such start.
WrittenBodyOf(s) ==
    IF /\ StartsWith(s, CvssPrefix)
       /\ Len(s) >= 9
       /\ SubSeq(s, 6, 8) \in {V30, V31}
       /\ s[9] = "/"
    THEN SubSeq(s, 10, Len(s))
    ELSE <<>>

\* The positions of the empty segments of a body cut at its "/": "leading"
\* for the first segment, "trailing" for the last, "middle" for any other.
\* A body without "/" has no "/"-delimited segment.
EmptySegmentPositions(body) ==
    LET segs == Split(body, "/")
    IN  {IF i = 1 THEN "leading" ELSE IF i = Len(segs) THEN "trailing" ELSE "middle" :
            i \in {j \in 1..Len(segs) : Len(segs) >= 2 /\ segs[j] = <<>>}}

\* Each of the 8 Base metrics is the key of one segment only, which is
\* key:value with a legal value.
AllBasePresentAndLegalIn(segs) ==
    \A k \in 1..Len(baseMetrics) :
        /\ Cardinality({i \in 1..Len(segs) :
                           Split(segs[i], ":")[1] = baseMetrics[k]}) = 1
        /\ \E i \in 1..Len(segs) :
              segs[i] \in {Seg(baseMetrics[k], v) : v \in baseMetricValues(baseMetrics[k])}

AllBasePresentAndLegal(body) == AllBasePresentAndLegalIn(Split(body, "/"))

\* C21: no vector with an empty segment is accepted: for every string whose
\* vector body, as written after CVSS:3.x/ or as extracted by the parser, has
\* an empty "/"-delimited segment in leading, middle or trailing position,
\* validate throws and returns no result; and when the version is 3.0 or 3.1
\* the error is the invalid-string error of the vector-body check if the
\* extracted body contains "//", the invalid-metric error of the parser if it
\* does not, whatever else the body holds.
C21_EmptySegmentRejected ==
    called = "validate" =>
        \A body \in {BodyOf(cvssStr)} :
            (EmptySegmentPositions(body) # {}
                \/ EmptySegmentPositions(WrittenBodyOf(cvssStr)) # {}) =>
                /\ thrown # "none"
                /\ validationResult = NoValidation
                /\ (parseVersion(cvssStr).def /\ parseVersion(cvssStr).val \in {V30, V31}) =>
                      thrown = IF Includes(body, <<"/", "/">>)
                               THEN "Invalid CVSS string"
                               ELSE "Invalid metric"

\* C21, its case: a string of version 3.1 with the 8 Base metrics, all legal,
\* and a trailing "/" (the only empty segment, so without "//") was rejected
\* by the parser.
C21_Witness ==
    /\ called = "validate"
    /\ parseVersion(cvssStr) = Defined(V31)
    /\ EmptySegmentPositions(WrittenBodyOf(cvssStr)) = {"trailing"}
    /\ EmptySegmentPositions(BodyOf(cvssStr)) = {"trailing"}
    /\ ~Includes(BodyOf(cvssStr), <<"/", "/">>)
    /\ AllBasePresentAndLegal(BodyOf(cvssStr))
    /\ thrown = "Invalid metric"
    /\ validationResult = NoValidation

====
